---------------------------- MODULE Spec2Model ----------------------------
(* Finite-control-set MPC solvers of soft4pes: MpcEnum, MpcBnB and          *)
(* MpcSpheDec, with the switching-constraint predicates and the linear     *)
(* prediction step they call.  Arithmetic is exact integer arithmetic:     *)
(* models, states and references are drawn from small integer sets.        *)
EXTENDS Integers, Sequences, FiniteSets, TLC

VARIABLES solver, nl, Np, model, lambda_u, x, y_ref, u_km1, enum, bnb, sd, qp, ctr, hist

vars == <<solver, nl, Np, model, lambda_u, x, y_ref, u_km1, enum, bnb, sd, qp, ctr, hist>>

\* value of an object that a specification does not construct
Unused == <<>>

(***************************************************************************)
(* Bounds of the input sets                                                *)
(***************************************************************************)
\* largest absolute coordinate of the initial reference sample
RefMax == 1

\* number of consecutive calls made on one MpcSpheDec instance
MaxCalls == 2

\* np.inf: larger than every cost the bounded inputs can produce
inf == 1000000

\* prediction horizons and level counts the solvers are run with
NpValues == {1, 2}
NlValues == {2, 3}
\* weighting factors lambda_u the controllers are configured with
LambdaValues == {0, 1}
\* the solver classes a controller can be given
Solvers == {"MpcEnum", "MpcBnB", "MpcSpheDec"}

(***************************************************************************)
(* numpy helpers                                                           *)
(***************************************************************************)
Abs(a) == IF a < 0 THEN -a ELSE a

RECURSIVE SumTo(_, _)
SumTo(s, n) == IF n = 0 THEN 0 ELSE s[n] + SumTo(s, n - 1)
\* sum of the entries of a vector (short vectors written out)
SumSeq(s) ==
  IF Len(s) = 2 THEN s[1] + s[2]
  ELSE IF Len(s) = 3 THEN s[1] + s[2] + s[3]
  ELSE SumTo(s, Len(s))

Max2(a, b) == IF a > b THEN a ELSE b
RECURSIVE MaxTo(_, _)
MaxTo(s, n) == IF n = 1 THEN s[1] ELSE Max2(s[n], MaxTo(s, n - 1))
\* largest entry of a non-empty vector
MaxSeq(s) ==
  IF Len(s) = 3 THEN Max2(s[1], Max2(s[2], s[3])) ELSE MaxTo(s, Len(s))

\* np.dot(a, b) for two vectors
Dot(a, b) ==
  IF Len(a) = 2 THEN a[1] * b[1] + a[2] * b[2]
  ELSE IF Len(a) = 3 THEN a[1] * b[1] + a[2] * b[2] + a[3] * b[3]
  ELSE SumSeq(<<>> \o [j \in 1..Len(a) |-> a[j] * b[j]])
\* np.dot(M, v) for a matrix (sequence of rows) and a vector
MatVec(M, v) ==
  IF Len(M) = 2 THEN <<Dot(M[1], v), Dot(M[2], v)>>
  ELSE <<>> \o [r \in 1..Len(M) |-> Dot(M[r], v)]
VecAdd(a, b) ==
  IF Len(a) = 2 THEN <<a[1] + b[1], a[2] + b[2]>>
  ELSE <<>> \o [j \in 1..Len(a) |-> a[j] + b[j]]
VecSub(a, b) ==
  IF Len(a) = 2 THEN <<a[1] - b[1], a[2] - b[2]>>
  ELSE IF Len(a) = 3 THEN <<a[1] - b[1], a[2] - b[2], a[3] - b[3]>>
  ELSE <<>> \o [j \in 1..Len(a) |-> a[j] - b[j]]
\* np.linalg.norm(v)**2
NormSq(v) == Dot(v, v)
\* np.linalg.norm(v, ord=1)
Norm1(v) ==
  IF Len(v) = 3 THEN Abs(v[1]) + Abs(v[2]) + Abs(v[3])
  ELSE SumSeq(<<>> \o [j \in 1..Len(v) |-> Abs(v[j])])
\* np.linalg.norm(v, np.inf) and np.max(np.abs(v))
NormInf(v) ==
  IF Len(v) = 3 THEN Max2(Abs(v[1]), Max2(Abs(v[2]), Abs(v[3])))
  ELSE MaxSeq(<<>> \o [j \in 1..Len(v) |-> Abs(v[j])])

RECURSIVE Pow(_, _)
Pow(b, e) == IF e = 0 THEN 1 ELSE b * Pow(b, e - 1)

Zeros(n) == <<>> \o [j \in 1..n |-> 0]

(***************************************************************************)
(* Switch positions                                                        *)
(***************************************************************************)
\* sw_pos_3ph of MpcEnum.__init__ / MpcBnB.__init__
SwPos3ph(n) == IF n = 2 THEN <<-1, 1>> ELSE <<-1, 0, 1>>

\* the same positions listed with the first phase varying fastest
SW_COMB_FirstFastest(n) ==
  LET s == SwPos3ph(n)
  IN [c \in 1..(n * n * n) |->
        << s[((c - 1) % n) + 1],
           s[(((c - 1) \div n) % n) + 1],
           s[((c - 1) \div (n * n)) + 1] >>]

\* SW_COMB = list(product(sw_pos_3ph, repeat=3)), in product order
SW_COMB(n) ==
  LET s == SwPos3ph(n)
  IN [c \in 1..(n * n * n) |->
        << s[((c - 1) \div (n * n)) + 1],
           s[(((c - 1) \div n) % n) + 1],
           s[((c - 1) % n) + 1] >>]

\* solvers.utils.switching_constraint_violated: the nl == 3 branch reads the
\* name uk_abc, which is not bound in the function (the parameter is u_abc)
\* nor in the module, so evaluating the branch raises NameError.
UtilsSwitchingConstraintViolated(n, u_abc, u_km1_abc) ==
  IF n = 2 THEN [raised |-> "none", value |-> FALSE]
  ELSE IF n = 3 THEN [raised |-> "NameError", value |-> FALSE]
  ELSE [raised |-> "ValueError", value |-> FALSE]

\* a predicate that lets every transition pass
EnumViolatedNone(n, uk, ukm1) == FALSE

\* MpcEnum.switching_constraint_violated (res = 0 is Python's false)
EnumSwitchingConstraintViolated(n, uk, ukm1) ==
  IF n = 2 THEN FALSE ELSE NormInf(VecSub(uk, ukm1)) >= 2

\* Converter.switching_constraint_violated (self.nl is the level count)
ConverterSwitchingConstraintViolated(n, u_k, ukm1) ==
  IF n = 2 THEN FALSE ELSE MaxSeq(<<>> \o [j \in 1..3 |-> Abs(u_k[j] - ukm1[j])]) >= 2

(***************************************************************************)
(* Prediction model and per-step cost                                      *)
(***************************************************************************)
\* ctr.C of the current controllers with a two-dimensional state
C == << <<1, 0>>, <<0, 1>> >>

\* IMMpcCurrCtr.get_next_state: A xk + B uk (the step index is not used)
GetNextState(m, xk, uk, k) == VecAdd(MatVec(m.A, xk), MatVec(m.B, uk))

\* the solver inputs of one call
Params == [nl |-> nl, Np |-> Np, model |-> model, lambda_u |-> lambda_u,
           x |-> x, y_ref |-> y_ref, u_km1 |-> u_km1, SW_COMB |-> SW_COMB(nl)]

(***************************************************************************)
(* MpcEnum                                                                 *)
(***************************************************************************)
\* assignment of uk to columns 3k..3k+2 of one row of u_seq
SetCols(row, k, uk) ==
  SubSeq(row, 1, 3 * k) \o uk \o SubSeq(row, 3 * (k + 1) + 1, Len(row))

\* self.u_seq[np.ix_(u_row_range, u_col_range)] = uk for rows lo..hi-1 (0-based)
FillSeqRows(u_seq, lo, hi, k, uk) ==
  SubSeq(u_seq, 1, lo) \o [r \in 1..(hi - lo) |-> SetCols(u_seq[lo + r], k, uk)]
    \o SubSeq(u_seq, hi + 1, Len(u_seq))

\* a cost array in which the rows of the block keep their values
FillCostRowsSkipped(J, lo, hi, Ji) == J

\* self.J[u_row_range] = self.J[self.i] for rows lo..hi-1 (0-based)
FillCostRows(J, lo, hi, Ji) ==
  SubSeq(J, 1, lo) \o [r \in 1..(hi - lo) |-> Ji] \o SubSeq(J, hi + 1, Len(J))

\* a step cost whose effort term is subtracted
EnumStepCostRewardingEffort(p, x_kp1, uk, ukm1, k) ==
  NormSq(VecSub(p.y_ref[k + 1], MatVec(C, x_kp1))) - p.lambda_u * Norm1(VecSub(uk, ukm1))

\* a step cost whose tracking error is not squared
EnumStepCostUnsquared(p, x_kp1, uk, ukm1, k) ==
  SumSeq(VecSub(p.y_ref[k + 1], MatVec(C, x_kp1))) + p.lambda_u * Norm1(VecSub(uk, ukm1))

\* ref_error + delta_u of MpcEnum.solve for candidate uk at step k
EnumStepCost(p, x_kp1, uk, ukm1, k) ==
  NormSq(VecSub(p.y_ref[k + 1], MatVec(C, x_kp1))) + p.lambda_u * Norm1(VecSub(uk, ukm1))

\* MpcEnum.solve: candidates c..end of the loop at prediction step k, then return
RECURSIVE EnumSolve(_, _, _, _, _, _)
EnumSolve(p, e, xk, ukm1, k, c) ==
  IF c > Len(p.SW_COMB) THEN e
  ELSE
    LET uk    == p.SW_COMB[c]
        bad   == EnumSwitchingConstraintViolated(p.nl, uk, ukm1) \/ e.J[e.i + 1] = inf
        x_kp1 == IF bad THEN xk ELSE GetNextState(p.model, xk, uk, k)
        Ji    == IF bad THEN inf ELSE e.J[e.i + 1] + EnumStepCost(p, x_kp1, uk, ukm1, k)
        e1    == [e EXCEPT !.J[e.i + 1] = Ji]
        blk   == Pow(p.nl, 3 * (p.Np - k - 1))
        e2    == IF k < p.Np - 1
                 THEN CHOOSE r \in
                        {EnumSolve(p, v[1], v[2], v[3], k + 1, 1) :
                           v \in {<< [e1 EXCEPT !.u_seq = FillSeqRows(e1.u_seq, e.i, e.i + blk, k, uk),
                                                !.J = FillCostRows(e1.J, e.i, e.i + blk, Ji)],
                                     x_kp1, uk >>}} : TRUE
                 ELSE [e1 EXCEPT !.u_seq[e.i + 1] = SetCols(e1.u_seq[e.i + 1], k, uk),
                                 !.i = e.i + 1]
    IN CHOOSE r \in {EnumSolve(p, v, xk, ukm1, k, c + 1) : v \in {e2}} : TRUE

\* index of the last occurrence of the minimum
ArgMinLast(J) == CHOOSE r \in 0..(Len(J) - 1) :
                   /\ \A q \in 0..(Len(J) - 1) : J[r + 1] <= J[q + 1]
                   /\ \A q \in (r + 1)..(Len(J) - 1) : J[q + 1] # J[r + 1]

\* np.argmin(J): 0-based index of the first occurrence of the minimum
ArgMin(J) == CHOOSE r \in 0..(Len(J) - 1) :
               /\ \A q \in 0..(Len(J) - 1) : J[r + 1] <= J[q + 1]
               /\ \A q \in 0..(r - 1) : J[q + 1] # J[r + 1]

\* MpcEnum.__call__
EnumCall(p) ==
  LET n  == Pow(p.nl, 3 * p.Np)
      e0 == [J |-> [r \in 1..n |-> 0], u_seq |-> [r \in 1..n |-> Zeros(3 * p.Np)], i |-> 0]
      e  == EnumSolve(p, e0, p.x, p.u_km1, 0, 1)
      min_index == ArgMin(e.J)
  IN [J |-> e.J, u_seq |-> e.u_seq, i |-> e.i, status |-> "ok",
      min_index |-> min_index, uk |-> SubSeq(e.u_seq[min_index + 1], 1, 3)]

(***************************************************************************)
(* MpcBnB                                                                  *)
(***************************************************************************)
\* a step cost without the effort term
BnBStepCostNoEffort(p, x_next, u, uprev, ell) ==
  NormSq(VecSub(p.y_ref[ell + 2], MatVec(C, x_next)))

\* y_error + lambda_u * delta_u of MpcBnB.solve for candidate u at step ell
BnBStepCost(p, x_next, u, uprev, ell) ==
  NormSq(VecSub(p.y_ref[ell + 2], MatVec(C, x_next))) + p.lambda_u * Norm1(VecSub(u, uprev))

\* U_temp[3*ell:3*(ell+1)] = u_ell_abc
SetSlice(U, ell, u) == SetCols(U, ell, u)

\* a pruning test that lets a candidate of equal cost through
BnBKeepEqual(J_temp, J_min) == J_temp <= J_min

\* the pruning test of MpcBnB.solve
BnBKeep(J_temp, J_min) == J_temp < J_min

\* MpcBnB.solve: candidates c..end of the loop at prediction step ell.  An
\* exception raised in the loop body unwinds every enclosing call.  trace
\* lists, in order, the candidates that passed the pruning test (recursed
\* into or, at the last step, stored in U_seq) with J_min as it was then.
RECURSIVE BnBSolve(_, _, _, _, _, _, _)
BnBSolve(p, b, x_ell, uprev, ell, J_prev, c) ==
  IF c > Len(p.SW_COMB) \/ b.status # "ok" THEN b
  ELSE
    LET u    == p.SW_COMB[c]
        viol == UtilsSwitchingConstraintViolated(p.nl, u, uprev)
    IN IF viol.raised # "none" THEN [b EXCEPT !.status = viol.raised]
       ELSE IF viol.value THEN BnBSolve(p, b, x_ell, uprev, ell, J_prev, c + 1)
       ELSE IF ell + 2 > Len(p.y_ref) THEN [b EXCEPT !.status = "IndexError"]
       ELSE
         LET x_next == GetNextState(p.model, x_ell, u, ell)
             J_temp == J_prev + BnBStepCost(p, x_next, u, uprev, ell)
             ev == [ell |-> ell, u |-> u, uprev |-> uprev, J_temp |-> J_temp,
                    J_min |-> b.J_min, U_temp |-> SetSlice(b.U_temp, ell, u)]
             b1 == IF ~BnBKeep(J_temp, b.J_min) THEN b
                   ELSE IF ell < p.Np - 1
                   THEN CHOOSE r \in
                          {BnBSolve(p, v[1], v[2], v[3], ell + 1, v[4], 1) :
                             v \in {<< [b EXCEPT !.U_temp = SetSlice(b.U_temp, ell, u),
                                                 !.trace = Append(@, ev)],
                                       x_next, u, J_temp >>}} : TRUE
                   ELSE LET Ut == SetSlice(b.U_temp, ell, u)
                        IN [b EXCEPT !.U_temp = Ut, !.U_seq = Ut, !.J_min = J_temp,
                                     !.trace = Append(@, ev)]
             b2 == IF ell = p.Np - 1 /\ b1.status = "ok"
                   THEN [b1 EXCEPT !.leaves = @ \cup {<<SetSlice(b.U_temp, ell, u), J_temp>>}]
                   ELSE b1
         IN CHOOSE r \in {BnBSolve(p, v, x_ell, uprev, ell, J_prev, c + 1) : v \in {b2}} : TRUE

\* MpcBnB.__call__; leaves records every (sequence, J_temp) computed at the
\* last prediction step
BnBCall(p) ==
  LET b0 == [J_min |-> inf, U_seq |-> Zeros(3 * p.Np), U_temp |-> Zeros(3 * p.Np),
             status |-> "ok", leaves |-> {}, trace |-> <<>>]
      b  == BnBSolve(p, b0, p.x, p.u_km1, 0, 0, 1)
  IN [J_min |-> b.J_min, U_seq |-> b.U_seq, U_temp |-> b.U_temp, status |-> b.status,
      leaves |-> b.leaves, trace |-> b.trace,
      uk |-> IF b.status = "ok" THEN SubSeq(b.U_seq, 1, 3) ELSE <<>>]


(***************************************************************************)
(* MpcSpheDec                                                              *)
(***************************************************************************)
\* tracking weight self.Q handed to MpcSpheDec.__init__ (the identity)
Q == << <<1, 0>>, <<0, 1>> >>

Transpose(M) == <<>> \o [c \in 1..Len(M[1]) |-> <<>> \o [r \in 1..Len(M) |-> M[r][c]]]
\* np.dot / ndarray.dot for two matrices
MatMul(M, N) == <<>> \o [r \in 1..Len(M) |-> <<>> \o [c \in 1..Len(N[1]) |->
                   SumTo(<<>> \o [j \in 1..Len(N) |-> M[r][j] * N[j][c]], Len(N))]]
MatAdd(M, N) == <<>> \o [r \in 1..Len(M) |-> <<>> \o [c \in 1..Len(M[1]) |-> M[r][c] + N[r][c]]]
MatScale(a, M) == <<>> \o [r \in 1..Len(M) |-> <<>> \o [c \in 1..Len(M[1]) |-> a * M[r][c]]]
Eye(n) == <<>> \o [r \in 1..n |-> <<>> \o [c \in 1..n |-> IF r = c THEN 1 ELSE 0]]
\* np.linalg.matrix_power(A, e)
RECURSIVE MatPow(_, _)
MatPow(A, e) == IF e = 0 THEN Eye(Len(A)) ELSE MatMul(A, MatPow(A, e - 1))
\* np.kron(np.eye(n), M)
KronEye(n, M) ==
  LET h == Len(M)
      w == Len(M[1])
  IN <<>> \o [r \in 1..(n * h) |-> <<>> \o [c \in 1..(n * w) |->
        IF (r - 1) \div h = (c - 1) \div w THEN M[((r - 1) % h) + 1][((c - 1) % w) + 1] ELSE 0]]

\* S of make_problem_matrices: identity minus the block shift by one step
MakeS(n) == <<>> \o [r \in 1..(3 * n) |-> <<>> \o [c \in 1..(3 * n) |->
               (IF r = c THEN 1 ELSE 0) - (IF r > 3 /\ c = r - 3 THEN 1 ELSE 0)]]
\* E of make_problem_matrices: identity on the first step, zero below
MakeE(n) == <<>> \o [r \in 1..(3 * n) |-> <<>> \o [c \in 1..3 |-> IF r = c THEN 1 ELSE 0]]

\* MpcSpheDec.make_Gamma: block row i is C A^(i+1)
MakeGamma(n, Cm, A) ==
  <<>> \o [r \in 1..(n * Len(Cm)) |->
     MatMul(Cm, MatPow(A, ((r - 1) \div Len(Cm)) + 1))[((r - 1) % Len(Cm)) + 1]]

\* np.roll(row, s, axis=1) on a block row
Roll(M, s) == <<>> \o [r \in 1..Len(M) |-> <<>> \o [c \in 1..Len(M[1]) |->
                 M[r][((c - 1 - s) % Len(M[1])) + 1]]]
\* Ypsilon_row after iteration i of the loop of MpcSpheDec.make_Ypsilon
RECURSIVE YpsilonRow(_, _, _, _, _)
YpsilonRow(n, Cm, A, B, i) ==
  LET w     == Len(B[1])
      prev  == IF i = 0 THEN <<>> \o [r \in 1..Len(Cm) |-> <<>> \o [c \in 1..(n * w) |-> 0]]
               ELSE YpsilonRow(n, Cm, A, B, i - 1)
      moved == Roll(prev, w)
      blk   == MatMul(MatMul(Cm, MatPow(A, i)), B)
  IN <<>> \o [r \in 1..Len(Cm) |-> <<>> \o [c \in 1..(n * w) |-> IF c <= w THEN blk[r][c] ELSE moved[r][c]]]
\* MpcSpheDec.make_Ypsilon
MakeYpsilon(n, Cm, A, B) ==
  LET rows == [i \in 0..(n - 1) |-> YpsilonRow(n, Cm, A, B, i)]
  IN <<>> \o [r \in 1..(n * Len(Cm)) |-> rows[(r - 1) \div Len(Cm)][((r - 1) % Len(Cm)) + 1]]

RECURSIVE Gcd(_, _)
Gcd(a, b) == IF b = 0 THEN a ELSE Gcd(b, a % b)
Lcm(a, b) == (a \div Gcd(a, b)) * b
RECURSIVE LcmTo(_, _)
LcmTo(s, n) == IF n = 0 THEN 1 ELSE Lcm(s[n], LcmTo(s, n - 1))

\* Hinv = np.linalg.inv(H); V = np.linalg.inv(np.linalg.cholesky(Hinv)).
\* V is the lower-triangular factor with positive diagonal and V^T V = H, so
\* its rows come from eliminating H from the last row upwards.  To stay in the
\* integers the elimination is fraction-free on [H | I] (M has the rows still
\* to be eliminated, prev is the previous pivot) and yields, for row k,
\*    V[k, j]        = Vnum[k][j]     / sqrt(Vden2[k])
\*    (V Hinv)[k, j] = VHinvNum[k][j] / sqrt(Vden2[k])
\* A zero pivot means H is singular: np.linalg.inv raises LinAlgError.
RECURSIVE Factorize(_, _, _, _)
Factorize(M, k, prev, out) ==
  IF k = 0 THEN out
  ELSE
    LET n   == Len(M)
        piv == M[k][k]
    IN IF piv = 0 THEN [out EXCEPT !.status = "LinAlgError"]
       ELSE
         LET out1 == [out EXCEPT !.Vnum[k] = SubSeq(M[k], 1, k) \o Zeros(n - k),
                                 !.Vden2[k] = piv * prev,
                                 !.VHinvNum[k] = SubSeq(M[k], n + 1, 2 * n)]
             M1 == <<>> \o [a \in 1..n |->
                      IF a >= k THEN M[a]
                      ELSE <<>> \o [b \in 1..(2 * n) |->
                              IF b >= k /\ b <= n THEN 0
                              ELSE (piv * M[a][b] - M[a][k] * M[k][b]) \div prev]]
         IN CHOOSE r \in {Factorize(v[1], k - 1, piv, v[2]) : v \in {<<M1, out1>>}} : TRUE

\* self.matrices before make_problem_matrices has returned
NoMatrices == [status |-> "None"]

\* the value of the only element of a one-element set: binds a computed value
\* to a name once, as an assignment to a local variable does
Only(S) == CHOOSE r \in S : TRUE

\* H of make_problem_matrices
MakeH(Ypsilon, Q_tilde, S, l) ==
  MatAdd(MatMul(MatMul(Transpose(Ypsilon), Q_tilde), Ypsilon),
         MatScale(l, MatMul(Transpose(S), S)))

\* MpcSpheDec.make_problem_matrices for a model with input matrix B
MakeProblemMatrices(p) ==
  LET n  == 3 * p.Np
      f0 == [status |-> "ok", Vnum |-> <<>> \o [r \in 1..n |-> Zeros(n)],
             Vden2 |-> Zeros(n), VHinvNum |-> <<>> \o [r \in 1..n |-> Zeros(n)]]
  IN Only({
       Only({
         Only({
           IF f.status # "ok" THEN [status |-> f.status]
           ELSE [status |-> "ok", Gamma |-> g.Gamma, Q_tilde |-> g.Q_tilde, S |-> g.S,
                 E |-> g.E, Ypsilon |-> g.Ypsilon, H |-> H, Vnum |-> f.Vnum,
                 Vden2 |-> f.Vden2, VHinvNum |-> f.VHinvNum, scale |-> LcmTo(f.Vden2, n)]
           : f \in {Factorize(<<>> \o [r \in 1..n |-> H[r] \o Eye(n)[r]], n, 1, f0)} })
         : H \in {MakeH(g.Ypsilon, g.Q_tilde, g.S, p.lambda_u)} })
       : g \in {[Q_tilde |-> KronEye(p.Np, Q),
                 S       |-> MakeS(p.Np),
                 E       |-> MakeE(p.Np),
                 Gamma   |-> MakeGamma(p.Np, C, p.model.A),
                 Ypsilon |-> MakeYpsilon(p.Np, C, p.model.A, p.model.B)]} })

\* an admissible set that is not bound after the value 0
GetAllowedUnboundAfterZero(n, u) ==
  IF n = 2 THEN [raised |-> "none", value |-> <<-1, 1>>]
  ELSE IF n = 3 /\ u = -1 THEN [raised |-> "none", value |-> <<-1, 0>>]
  ELSE IF n = 3 /\ u = 1 THEN [raised |-> "none", value |-> <<0, 1>>]
  ELSE [raised |-> "UnboundLocalError", value |-> <<>>]

\* MpcSpheDec.get_allowed_switch_positions; for nl == 3 and a value outside
\* {-1, 0, 1} no branch binds res and the return raises UnboundLocalError
GetAllowedSwitchPositions(n, u) ==
  IF n = 2 THEN [raised |-> "none", value |-> <<-1, 1>>]
  ELSE IF n = 3 /\ u = -1 THEN [raised |-> "none", value |-> <<-1, 0>>]
  ELSE IF n = 3 /\ u = 0 THEN [raised |-> "none", value |-> <<-1, 0, 1>>]
  ELSE IF n = 3 /\ u = 1 THEN [raised |-> "none", value |-> <<0, 1>>]
  ELSE [raised |-> "UnboundLocalError", value |-> <<>>]

\* Converter.get_allowed_switch_positions: three separate ifs for nl == 3,
\* at most one of which binds res
ConverterGetAllowedSwitchPositions(n, u) ==
  IF n = 2 THEN [raised |-> "none", value |-> <<-1, 1>>]
  ELSE IF n = 3 /\ u \in {-1, 0, 1}
       THEN [raised |-> "none",
             value |-> IF u = 1 THEN <<0, 1>> ELSE IF u = 0 THEN <<-1, 0, 1>> ELSE <<-1, 0>>]
  ELSE [raised |-> "UnboundLocalError", value |-> <<>>]

\* a term that is not squared
SdTermUnsquared(m, UbarNum, U, i) ==
  LET e == UbarNum[i + 1] - SumTo(<<>> \o [j \in 1..(i + 1) |-> m.Vnum[i + 1][j] * U[j]], i + 1)
  IN e * (m.scale \div m.Vden2[i + 1])

\* (U_bar_unc[i] - V[i, :i+1].dot(U[:i+1]))**2, times the common denominator
\* scale of the rows of V (i is 0-based)
SdTerm(m, UbarNum, U, i) ==
  LET e == UbarNum[i + 1] - SumTo(<<>> \o [j \in 1..(i + 1) |-> m.Vnum[i + 1][j] * U[j]], i + 1)
  IN e * e * (m.scale \div m.Vden2[i + 1])

\* MpcSpheDec.sphe_dec: candidates c..end of the loop at index i, then return.
\* s holds U, U_opt and rho (times scale); leaves counts the updates of U_opt;
\* trace lists, in order, the nodes that passed the test d <= rho (descended
\* into or, at full depth, stored in U_opt) with rho as it was then.
RECURSIVE SpheDec(_, _, _, _, _)
SpheDec(q, s, dist, i, c) ==
  LET u_old   == IF i < 3 THEN q.u_km1[i + 1] ELSE s.U[i - 3 + 1]
      allowed == GetAllowedSwitchPositions(q.nl, u_old)
  IN IF s.status # "ok" THEN s
     ELSE IF allowed.raised # "none" THEN [s EXCEPT !.status = allowed.raised]
     ELSE IF c > Len(allowed.value) THEN s
     ELSE
       LET u  == allowed.value[c]
           U1 == [s.U EXCEPT ![i + 1] = u]
           d  == SdTerm(q.m, q.UbarNum, U1, i) + dist
           s1 == [s EXCEPT !.U = U1]
           ev == [i |-> i, dist |-> dist, d |-> d, rho |-> s.rho, U |-> U1]
           s2 == IF d <= s.rho
                 THEN IF i < 3 * q.Np - 1
                      THEN CHOOSE r \in {SpheDec(q, v[1], v[2], i + 1, 1)
                                           : v \in {<<[s1 EXCEPT !.trace = Append(@, ev)], d>>}} : TRUE
                      ELSE [s1 EXCEPT !.U_opt = U1, !.rho = d, !.leaves = @ + 1,
                                      !.trace = Append(@, ev)]
                 ELSE s1
       IN CHOOSE r \in {SpheDec(q, v, dist, i, c + 1) : v \in {s2}} : TRUE

\* y_ref.flatten()
RECURSIVE Flatten(_)
Flatten(rows) == IF rows = <<>> THEN <<>> ELSE rows[1] \o Flatten(Tail(rows))

\* MpcSpheDec.__call__ on the solver instance s.  U_bar_unc and rho are held
\* as exact integers: U_bar_unc[i] = UbarNum[i] / sqrt(Vden2[i]) and
\* rho = (integer) / scale.  The factor (1 + 1e-9) on the initial rho only
\* admits points at the same exact distance as U_ini, which the exact
\* comparison d <= rho admits as well.
SpheDecCall(p, s) ==
  LET n == 3 * p.Np
  IN Only({
       IF m.status # "ok"
       THEN [s EXCEPT !.status = m.status, !.calls = @ + 1, !.uk = <<>>]
       ELSE
         LET U_km1 == IF s.initialized THEN s.U_km1 ELSE Zeros(n)
             s1    == [s EXCEPT !.initialized = TRUE, !.matrices = m, !.U_km1 = U_km1,
                                !.calls = @ + 1, !.uk = <<>>]
             Y_ref == Flatten(p.y_ref)
             U_ini == SubSeq(U_km1, 4, n) \o SubSeq(U_km1, n - 2, n)
         IN IF Len(Y_ref) # Len(m.Gamma) THEN [s1 EXCEPT !.status = "ValueError"]
            ELSE
              Only({
                Only({
                  Only({
                    IF r.status # "ok" THEN [s1 EXCEPT !.status = r.status]
                    ELSE [s1 EXCEPT !.status = "ok", !.U_km1 = r.U_opt,
                                    !.uk = SubSeq(r.U_opt, 1, 3),
                                    !.prev = SubSeq(U_km1, 1, 3), !.U_ini = U_ini,
                                    !.rho_ini = rho, !.rho = r.rho, !.leaves = r.leaves,
                                    !.U_bar_unc = UbarNum, !.trace = r.trace]
                    : r \in {SpheDec([nl |-> p.nl, Np |-> p.Np, m |-> m,
                                      UbarNum |-> UbarNum, u_km1 |-> U_km1],
                                     [U |-> U_ini, U_opt |-> Zeros(n), rho |-> rho,
                                      leaves |-> 0, status |-> "ok", trace |-> <<>>],
                                     0, 0, 1)} })
                  : rho \in {SumTo(<<>> \o [i \in 1..n |-> SdTerm(m, UbarNum, U_ini, i - 1)], n)} })
                : UbarNum \in {Only({<<>> \o [i \in 1..n |-> -Dot(m.VHinvNum[i], Theta)]
                                   : Theta \in {VecSub(
                                       MatVec(MatScale(-1, MatMul(Transpose(m.Ypsilon), m.Q_tilde)),
                                              VecSub(Y_ref, MatVec(m.Gamma, p.x))),
                                       MatVec(MatScale(p.lambda_u, Transpose(m.S)),
                                              MatVec(m.E, SubSeq(U_km1, 1, 3))))} })} })
       : m \in {IF s.initialized THEN s.matrices ELSE MakeProblemMatrices(p)} })

(***************************************************************************)
(* Inputs                                                                  *)
(***************************************************************************)
Identity2 == << <<1, 0>>, <<0, 1>> >>
Rot90     == << <<0, -1>>, <<1, 0>> >>
\* input matrix with integer entries whose kernel is the common mode (1,1,1),
\* as for the Clarke transform
BDiff     == << <<1, 0, -1>>, <<0, 1, -1>> >>

Models == { [A |-> Identity2, B |-> BDiff], [A |-> Rot90, B |-> BDiff] }

States == { <<0, 0>>, <<1, -1>> }

Refs == { <<RefMax, 0>> }

Rotations == { Identity2, Rot90 }

RECURSIVE Rotate(_, _, _)
Rotate(R, y, n) == IF n = 0 THEN y ELSE Rotate(R, MatVec(R, y), n - 1)

\* RLGridMpcCurrCtr.__call__: Np + 1 rows, row ell = R^ell y0
RefHorizonNp1(R, y0, n) == [r \in 1..(n + 1) |-> Rotate(R, y0, r - 1)]
\* IMMpcCurrCtr.__call__: Np rows, row k = R^(k+1) y0
RefHorizonNp(R, y0, n) == [r \in 1..n |-> Rotate(R, y0, r)]

RefHorizons(n) ==
  {RefHorizonNp1(R, y0, n) : R \in Rotations, y0 \in Refs}
    \cup {RefHorizonNp(R, y0, n) : R \in Rotations, y0 \in Refs}

\* previously applied positions: the controllers' initial [0,0,0] or a
\* position of the alphabet
PrevPositions == {<<0, 0, 0>>, <<1, -1, 1>>, <<-1, -1, -1>>}

EnumInit == [J |-> <<>>, u_seq |-> <<>>, i |-> 0, status |-> "idle", min_index |-> 0, uk |-> <<>>]
BnBInit  == [J_min |-> inf, U_seq |-> <<>>, U_temp |-> <<>>, status |-> "idle",
             leaves |-> {}, trace |-> <<>>, uk |-> <<>>]

\* MpcSpheDec.__init__; prev, U_ini, U_bar_unc, rho_ini, rho and leaves record
\* the last completed search, calls counts the calls made
SpheDecInit == [initialized |-> FALSE, matrices |-> NoMatrices, U_km1 |-> <<>>,
                status |-> "idle", uk |-> <<>>, prev |-> <<>>, U_ini |-> <<>>,
                U_bar_unc |-> <<>>, rho_ini |-> 0, rho |-> 0, leaves |-> 0, trace |-> <<>>,
                calls |-> 0]

Init ==
  /\ solver \in Solvers
  /\ nl \in NlValues
  /\ Np \in NpValues
  /\ model \in Models
  /\ lambda_u \in LambdaValues
  /\ x \in States
  /\ y_ref \in RefHorizons(Np)
  /\ u_km1 \in (IF solver = "MpcSpheDec" THEN {<<0, 0, 0>>} ELSE PrevPositions)
  /\ enum = EnumInit
  /\ bnb = BnBInit
  /\ sd = SpheDecInit
  /\ qp = Unused /\ ctr = Unused /\ hist = <<>>

CallEnum ==
  /\ solver = "MpcEnum"
  /\ enum.status = "idle"
  /\ \E p \in {Params} : enum' = EnumCall(p)
  /\ UNCHANGED <<qp, ctr, hist, solver, nl, Np, model, lambda_u, x, y_ref, u_km1, bnb, sd>>

CallBnB ==
  /\ solver = "MpcBnB"
  /\ bnb.status = "idle"
  /\ \E p \in {Params} : bnb' = BnBCall(p)
  /\ UNCHANGED <<qp, ctr, hist, solver, nl, Np, model, lambda_u, x, y_ref, u_km1, enum, sd>>

\* one call of the MpcSpheDec instance; from the second call on the plant
\* state and the reference horizon are new samples
CallSpheDec ==
  /\ solver = "MpcSpheDec"
  /\ sd.status \in {"idle", "ok"}
  /\ sd.calls < MaxCalls
  /\ \E nx \in (IF sd.calls = 0 THEN {x} ELSE States),
        ny \in (IF sd.calls = 0 THEN {y_ref}
                ELSE {h \in RefHorizons(Np) : Len(h) = Len(y_ref)}) :
       /\ x' = nx
       /\ y_ref' = ny
       /\ \E p \in {[Params EXCEPT !.x = nx, !.y_ref = ny]} : sd' = SpheDecCall(p, sd)
  /\ UNCHANGED <<qp, ctr, hist, solver, nl, Np, model, lambda_u, u_km1, enum, bnb>>

Next == CallEnum \/ CallBnB \/ CallSpheDec

Spec == Init /\ [][Next]_vars

(***************************************************************************)
(* Construction and first call under any configuration: the level count    *)
(* and the horizon are not restricted to the supported values.  Each       *)
(* solver record holds the outcome (status), the function in which an      *)
(* error was raised or from which the result came (where), and the         *)
(* returned position.                                                      *)
(***************************************************************************)
ConfigNlValues == {2, 3, 4}
ConfigNpValues == {0, 1}

NotConstructed == [status |-> "new", where |-> "-", uk |-> <<>>]

\* MpcEnum.__init__ / MpcBnB.__init__: for a level count other than 2 and 3
\* no branch binds sw_pos_3ph and product(sw_pos_3ph, repeat=3) raises
\* UnboundLocalError; the horizon is not an argument
SolverConstruct(n) ==
  IF n \in {2, 3} THEN [status |-> "idle", where |-> "__init__", uk |-> <<>>]
  ELSE [status |-> "UnboundLocalError", where |-> "__init__", uk |-> <<>>]

\* MpcSpheDec.__init__: stores Q, reads neither the level count nor the horizon
SpheDecConstruct(n) == [status |-> "idle", where |-> "__init__", uk |-> <<>>]

\* MpcEnum.__call__ for Np = 0: J has one row, u_seq has one row and no
\* column; solve handles the first candidate, whose last-step branch
\* assigns three values to the empty slice u_seq[0, 0:3] (ValueError), after
\* reading y_ref[0] for the cost if the candidate is legal (IndexError on an
\* array without rows)
EnumCallNoHorizon(p) ==
  LET uk  == p.SW_COMB[1]
      bad == EnumSwitchingConstraintViolated(p.nl, uk, p.u_km1)
  IN IF ~bad /\ Len(p.y_ref) = 0
     THEN [status |-> "IndexError", where |-> "solve", uk |-> <<>>]
     ELSE [status |-> "ValueError", where |-> "solve", uk |-> <<>>]

\* MpcBnB.__call__ for Np = 0: solve handles the first candidate; the
\* constraint check raises for nl = 3, otherwise the cost reads y_ref[1],
\* which an array of at most one row does not have
BnBCallNoHorizon(p) ==
  LET v == UtilsSwitchingConstraintViolated(p.nl, p.SW_COMB[1], p.u_km1)
  IN IF v.raised # "none" THEN [status |-> v.raised, where |-> "solve", uk |-> <<>>]
     ELSE IF Len(p.y_ref) < 2 THEN [status |-> "IndexError", where |-> "solve", uk |-> <<>>]
     ELSE [status |-> "ValueError", where |-> "solve", uk |-> <<>>]

\* the function a failed or completed MpcSpheDec.__call__ ended in
SpheDecWhere(r) ==
  IF r.status = "LinAlgError" THEN "make_problem_matrices"
  ELSE IF r.status = "ValueError" THEN "__call__"
  ELSE IF r.status = "ok" THEN "__call__"
  ELSE "sphe_dec"

\* first call of a constructed solver
ConfigCallOutcome(p) ==
  IF solver = "MpcEnum"
  THEN IF p.Np < 1 THEN EnumCallNoHorizon(p)
       ELSE [status |-> "ok", where |-> "__call__", uk |-> EnumCall(p).uk]
  ELSE IF solver = "MpcBnB"
  THEN IF p.Np < 1 THEN BnBCallNoHorizon(p)
       ELSE Only({[status |-> b.status,
                   where |-> IF b.status = "ok" THEN "__call__" ELSE "solve",
                   uk |-> b.uk] : b \in {BnBCall(p)}})
  ELSE IF p.Np < 1
       \* np.eye(Np - 1) in make_problem_matrices: negative dimensions
       THEN [status |-> "ValueError", where |-> "make_problem_matrices", uk |-> <<>>]
       ELSE Only({[status |-> r.status, where |-> SpheDecWhere(r), uk |-> r.uk]
                  : r \in {SpheDecCall(p, SpheDecInit)}})

\* the solver inputs of one call; SW_COMB exists only if construction bound it
ConfigParams ==
  [nl |-> nl, Np |-> Np, model |-> model, lambda_u |-> lambda_u, x |-> x, y_ref |-> y_ref,
   u_km1 |-> u_km1, SW_COMB |-> IF nl \in {2, 3} THEN SW_COMB(nl) ELSE <<>>]

ConfigInit ==
  /\ solver \in Solvers
  /\ nl \in ConfigNlValues
  /\ Np \in ConfigNpValues
  /\ model \in Models
  /\ lambda_u \in LambdaValues
  /\ x \in States
  /\ y_ref \in RefHorizons(Np)
  /\ u_km1 \in (IF solver = "MpcSpheDec" THEN {<<0, 0, 0>>} ELSE PrevPositions)
  /\ enum = NotConstructed
  /\ bnb = NotConstructed
  /\ sd = NotConstructed
  /\ qp = Unused /\ ctr = Unused /\ hist = <<>>

ConfigUnchanged == UNCHANGED <<qp, ctr, hist, solver, nl, Np, model, lambda_u, x, y_ref, u_km1>>

ConstructEnum ==
  /\ solver = "MpcEnum" /\ enum.status = "new"
  /\ enum' = SolverConstruct(nl)
  /\ UNCHANGED <<bnb, sd>> /\ ConfigUnchanged

ConstructBnB ==
  /\ solver = "MpcBnB" /\ bnb.status = "new"
  /\ bnb' = SolverConstruct(nl)
  /\ UNCHANGED <<enum, sd>> /\ ConfigUnchanged

ConstructSpheDec ==
  /\ solver = "MpcSpheDec" /\ sd.status = "new"
  /\ sd' = SpheDecConstruct(nl)
  /\ UNCHANGED <<enum, bnb>> /\ ConfigUnchanged

ConfigCall ==
  /\ \E p \in {ConfigParams} :
       \/ /\ solver = "MpcEnum" /\ enum.status = "idle"
          /\ enum' = ConfigCallOutcome(p) /\ UNCHANGED <<bnb, sd>>
       \/ /\ solver = "MpcBnB" /\ bnb.status = "idle"
          /\ bnb' = ConfigCallOutcome(p) /\ UNCHANGED <<enum, sd>>
       \/ /\ solver = "MpcSpheDec" /\ sd.status = "idle"
          /\ sd' = ConfigCallOutcome(p) /\ UNCHANGED <<enum, bnb>>
  /\ ConfigUnchanged

ConfigNext == ConstructEnum \/ ConstructBnB \/ ConstructSpheDec \/ ConfigCall

ConfigSpec == ConfigInit /\ [][ConfigNext]_vars

(***************************************************************************)
(* IndirectMpcQP.  The QP itself is solved by the external backend         *)
(* (qpsolvers.solve_qp), whose answer is either None (no solution found)   *)
(* or a vector of the problem's dimension; the answer is an input.         *)
(***************************************************************************)
\* number of parameters of utils.make_QP_matrices(sys, ctr)
MakeQPMatricesParams == 2
\* number of arguments of the call make_QP_matrices(sys, conv, ctr)
MakeQPMatricesArgs == 3
\* None, the answer of solve_qp when it finds no solution
QPNone == [found |-> FALSE, x |-> <<>>]

\* answers of solve_qp for a horizon of n steps, with one slack variable per
\* step (R_size = 1)
QPOutcomes(n) ==
  {QPNone} \cup {[found |-> TRUE, x |-> head \o Zeros((3 + 1) * n - 3)]
                   : head \in {<<0, 0, 0>>, <<1, -1, 0>>}}

\* IndirectMpcQP.__init__; asked tells whether the last call reached solve_qp
\* and U_tilde records the answer it got; builds counts the calls of
\* make_QP_matrices
QPInit == [QP_matrices |-> "None", status |-> "idle", where |-> "__init__",
           asked |-> FALSE, U_tilde |-> QPNone, uk |-> <<>>, calls |-> 0, builds |-> 0]

\* IndirectMpcQP.__call__ on the instance q, out being the answer the backend
\* gives if it is asked
QPCall(q, out) ==
  LET q0 == [q EXCEPT !.calls = @ + 1, !.asked = FALSE, !.U_tilde = QPNone, !.uk = <<>>,
                      !.builds = IF q.QP_matrices = "None" THEN @ + 1 ELSE @]
  IN IF q.QP_matrices = "None" /\ MakeQPMatricesArgs # MakeQPMatricesParams
     THEN [q0 EXCEPT !.status = "TypeError", !.where = "make_QP_matrices"]
     ELSE LET q1 == [q0 EXCEPT !.QP_matrices = "built", !.asked = TRUE, !.U_tilde = out]
          IN IF ~out.found
             \* U_tilde[0:3] on None
             THEN [q1 EXCEPT !.status = "TypeError", !.where = "__call__"]
             ELSE [q1 EXCEPT !.status = "ok", !.where = "__call__",
                             !.uk = SubSeq(out.x, 1, 3)]

QPInitState ==
  /\ solver = "IndirectMpcQP"
  /\ nl \in NlValues
  /\ Np \in NpValues
  /\ model \in Models
  /\ lambda_u \in LambdaValues
  /\ x \in States
  /\ y_ref \in RefHorizons(Np)
  /\ u_km1 \in PrevPositions
  /\ enum = Unused /\ bnb = Unused /\ sd = Unused /\ ctr = Unused /\ hist = <<>>
  /\ qp = QPInit

\* one control step: the controller calls the solver instance
CallQP ==
  /\ qp.calls < MaxCalls
  /\ \E out \in QPOutcomes(Np) : qp' = QPCall(qp, out)
  /\ UNCHANGED <<solver, nl, Np, model, lambda_u, x, y_ref, u_km1, enum, bnb, sd, ctr, hist>>

QPSpec == QPInitState /\ [][CallQP]_vars

(***************************************************************************)
(* Repeated calls of one solver instance.  Between two calls the plant     *)
(* state is sampled anew (possibly with the same value); the reference     *)
(* horizon, the controller's previous position and the weights stay as     *)
(* they are.  hist records the inputs and the result of every call.        *)
(***************************************************************************)
\* number of calls made on one instance
MaxRepeats == 3

\* inputs p and result r of one call
Called(p, r) ==
  [x |-> p.x, y_ref |-> p.y_ref, u_km1 |-> p.u_km1, status |-> r.status, uk |-> r.uk]

\* uk = self.solver(sys, conv, self, y_ref) on the same instance as before
RepeatCall ==
  /\ Len(hist) < MaxRepeats
  /\ \E nx \in States :
       /\ x' = nx
       /\ \E p \in {[Params EXCEPT !.x = nx]} :
            \/ /\ solver = "MpcEnum"
               /\ enum' = EnumCall(p)
               /\ hist' = Append(hist, Called(p, enum'))
               /\ UNCHANGED <<bnb, sd>>
            \/ /\ solver = "MpcBnB"
               /\ bnb' = BnBCall(p)
               /\ hist' = Append(hist, Called(p, bnb'))
               /\ UNCHANGED <<enum, sd>>
            \/ /\ solver = "MpcSpheDec"
               /\ sd.status \in {"idle", "ok"}
               /\ sd' = SpheDecCall(p, sd)
               /\ hist' = Append(hist, Called(p, sd'))
               /\ UNCHANGED <<enum, bnb>>
  /\ UNCHANGED <<solver, nl, Np, model, lambda_u, y_ref, u_km1, qp, ctr>>

RepeatSpec == Init /\ [][RepeatCall]_vars

(***************************************************************************)
(* get_next_state of the MPC controllers.  ctr holds the fields of the     *)
(* controller (state_space, vg) and of the system object (theta_el,        *)
(* cont_state_space) that the prediction step reads or writes, the number  *)
(* of calls made, and the (arguments, value) pairs of the calls made since *)
(* the system was last updated.  Angles are counted in quarter turns.      *)
(***************************************************************************)
\* the matrix [[cos, sin], [-sin, cos]] of alpha_beta_2_dq and of
\* get_continuous_state_space; its transpose is the matrix of dq_2_alpha_beta
ParkMatrix(theta) == IF theta = 0 THEN Identity2 ELSE Transpose(Rot90)

\* SynchronousMachine.get_continuous_state_space with Rs = Xsd = Xsq = ws =
\* PsiPM = 1 and K * v_dc / 2 = BDiff
ContStateSpace(theta) ==
  [F |-> << <<-1, 1>>, <<-1, -1>> >>, G1 |-> MatMul(ParkMatrix(theta), BDiff), G2 |-> <<0, -1>>]

\* SystemModel.get_discrete_state_space, method forward_euler, Ts_pu = 1
DiscreteStateSpace(css) == [A |-> MatAdd(Eye(2), css.F), B1 |-> css.G1, B2 |-> css.G2]

\* get_next_state(sys, xk, u_abc, k) of controller c: the fields after the
\* call and the returned state.  IMMpcCurrCtr names its input matrix B.
CtrGetNextState(c, xk, u, k) ==
  IF c.kind = "SMMpcCurrCtr"
  THEN LET css == ContStateSpace(c.theta_el)
           ss  == DiscreteStateSpace(css)
           xk_dq == MatVec(ParkMatrix(c.theta_el), xk)
           x_kp1_dq == VecAdd(VecAdd(MatVec(ss.A, xk_dq), MatVec(ss.B1, u)), ss.B2)
       IN [fields |-> [c EXCEPT !.cont_state_space = css, !.state_space = ss],
           value |-> MatVec(Transpose(ParkMatrix(c.theta_el)), x_kp1_dq)]
  ELSE IF c.kind = "IMMpcCurrCtr"
  THEN [fields |-> c,
        value |-> VecAdd(MatVec(c.state_space.A, xk), MatVec(c.state_space.B1, u))]
  ELSE [fields |-> c,
        value |-> VecAdd(VecAdd(MatVec(c.state_space.A, xk), MatVec(c.state_space.B1, u)),
                         MatVec(c.state_space.B2, Rotate(Rot90, c.vg, k)))]

\* the controller after __init__ and, for all but SMMpcCurrCtr, after
\* execute has stored the discrete model and the grid voltage; the system
\* after its construction (theta_el = 0)
CtrInitState ==
  /\ solver = "none" /\ nl = 2 /\ Np = 1
  /\ model \in Models /\ lambda_u = 0
  /\ x = <<0, 0>> /\ y_ref = <<>> /\ u_km1 = <<0, 0, 0>>
  /\ enum = Unused /\ bnb = Unused /\ sd = Unused /\ qp = Unused /\ hist = <<>>
  /\ \E kind \in {"RLGridMpcCurrCtr", "LCLVcMpcCtr", "IMMpcCurrCtr", "SMMpcCurrCtr"},
        vg \in {<<1, 0>>, <<0, 1>>} :
       ctr = [kind |-> kind, theta_el |-> 0, cont_state_space |-> ContStateSpace(0),
              state_space |-> IF kind = "SMMpcCurrCtr"
                              THEN [A |-> <<>>, B1 |-> <<>>, B2 |-> <<>>]
                              ELSE [A |-> model.A, B1 |-> model.B, B2 |-> Identity2],
              vg |-> vg, calls |-> 0, results |-> {}]

\* one call ctr.get_next_state(sys, xk, u, k) made by a solver
GetNextStateCall ==
  /\ ctr.calls < MaxRepeats
  /\ \E xk \in States, u \in PrevPositions, k \in 0..1 :
       \E r \in {CtrGetNextState(ctr, xk, u, k)} :
         ctr' = [r.fields EXCEPT !.calls = @ + 1,
                                 !.results = @ \cup {[xk |-> xk, u |-> u, k |-> k, value |-> r.value]}]
  /\ UNCHANGED <<solver, nl, Np, model, lambda_u, x, y_ref, u_km1, enum, bnb, sd, qp, hist>>

\* SynchronousMachine.update_internal_variables between two searches
UpdateInternalVariables ==
  /\ ctr.kind = "SMMpcCurrCtr"
  /\ \E theta \in 0..1 : ctr' = [ctr EXCEPT !.theta_el = theta, !.results = {}]
  /\ UNCHANGED <<solver, nl, Np, model, lambda_u, x, y_ref, u_km1, enum, bnb, sd, qp, hist>>

CtrSpec == CtrInitState /\ [][GetNextStateCall \/ UpdateInternalVariables]_vars

(***************************************************************************)
(* Closed loop: consecutive control steps of a controller with MpcEnum or  *)
(* MpcBnB.  RLGridMpcCurrCtr keeps the previous position in u_km1_abc and  *)
(* builds a reference of Np + 1 rows, IMMpcCurrCtr keeps it in u_km1 and   *)
(* builds Np rows; MpcEnum reads ctr.u_km1, MpcBnB reads ctr.u_km1_abc.    *)
(* A step that raises ends the loop.                                       *)
(***************************************************************************)
LoopInit ==
  /\ solver \in {"MpcEnum", "MpcBnB"}
  /\ nl \in NlValues
  /\ Np \in NpValues
  /\ model \in Models
  /\ lambda_u \in LambdaValues
  /\ x \in States
  /\ ctr \in {[kind |-> "RLGridMpcCurrCtr"], [kind |-> "IMMpcCurrCtr"]}
  /\ y_ref \in {IF ctr.kind = "RLGridMpcCurrCtr" THEN RefHorizonNp1(R, y0, Np)
                ELSE RefHorizonNp(R, y0, Np) : R \in Rotations, y0 \in Refs}
  /\ u_km1 = <<0, 0, 0>>
  /\ enum = EnumInit /\ bnb = BnBInit /\ sd = Unused /\ qp = Unused /\ hist = <<>>

\* one control step: the plant state is sampled, the solver is called and
\* the returned position is stored as the previous position
ControlStep ==
  /\ Len(hist) < MaxRepeats
  /\ hist # <<>> => hist[Len(hist)].status = "ok"
  /\ \E nx \in States :
       /\ x' = nx
       /\ \E p \in {[Params EXCEPT !.x = nx]} :
            \/ /\ solver = "MpcEnum" /\ ctr.kind = "IMMpcCurrCtr"
               /\ enum' = EnumCall(p)
               /\ hist' = Append(hist, Called(p, enum'))
               /\ u_km1' = enum'.uk
               /\ UNCHANGED bnb
            \/ /\ solver = "MpcBnB" /\ ctr.kind = "RLGridMpcCurrCtr"
               /\ bnb' = BnBCall(p)
               /\ hist' = Append(hist, Called(p, bnb'))
               /\ u_km1' = IF bnb'.status = "ok" THEN bnb'.uk ELSE u_km1
               /\ UNCHANGED enum
            \/ /\ \/ solver = "MpcEnum" /\ ctr.kind = "RLGridMpcCurrCtr"
                  \/ solver = "MpcBnB" /\ ctr.kind = "IMMpcCurrCtr"
               /\ hist' = Append(hist, Called(p, [status |-> "AttributeError", uk |-> <<>>]))
               /\ UNCHANGED <<enum, bnb, u_km1>>
  /\ UNCHANGED <<solver, nl, Np, model, lambda_u, y_ref, sd, qp, ctr>>

LoopSpec == LoopInit /\ [][ControlStep]_vars

(***************************************************************************)
(* CarrierPWM (control/modulation/carrier_pwm.py).  A modulating signal is  *)
(* counted in halves (u = m / 2 with m in -2..2: the controllers clip it to *)
(* [-1, 1]), a duty ratio and a switching time instant in quarters of the   *)
(* control interval, so that every product of the code is an integer.  In   *)
(* this specification ctr holds the fields of the CarrierPWM object         *)
(* (carrier_rising, input, output) and hist the outputs of the calls made.   *)
(***************************************************************************)
\* the modulating signals a controller hands over: np.clip(..., -1, 1)
ModulatingSignals == {<<a, b, c>> : a \in -2..2, b \in -2..2, c \in -2..2}

\* d_abc of one phase, in quarters
DutyRatio(n, u) ==
  IF n = 2 THEN u + 2
  ELSE IF u < 0 THEN 4 + 2 * u ELSE 2 * u

\* np.argsort(t): the indices of t in ascending order of value (rows of
\* equal value in index order)
ArgSort(t) ==
  LET rank(i) == Cardinality({j \in 1..Len(t) : t[j] < t[i] \/ (t[j] = t[i] /\ j < i)}) + 1
  IN  <<>> \o [r \in 1..Len(t) |-> CHOOSE i \in 1..Len(t) : rank(i) = r]

\* the falling branch without the negation of the comparison
SwitchStateFallingNotNegated(rising, d, t) ==
  IF rising THEN (IF d > t THEN 1 ELSE 0)
  ELSE (IF 4 - d > t THEN 1 ELSE 0)

\* the entry of switch_pos for a phase of duty ratio d in the row of instant t
SwitchState(rising, d, t) ==
  IF rising THEN (IF d > t THEN 1 ELSE 0)
  ELSE (IF ~(4 - d > t) THEN 1 ELSE 0)

\* CarrierPWM.execute: the object after the call
PwmExecute(p, n) ==
  LET u == p.input
      d == [j \in 1..3 |-> DutyRatio(n, u[j])]
      t_switch == IF p.carrier_rising THEN <<0>> \o d
                  ELSE <<0>> \o [j \in 1..3 |-> 4 - d[j]]
      switch_pos == [i \in 1..4 |-> [j \in 1..3 |-> SwitchState(p.carrier_rising, d[j], t_switch[i])]]
      switch_pos_phase == [i \in 1..4 |-> [j \in 1..3 |->
                             IF n = 2 THEN 2 * switch_pos[i][j] - 1
                             ELSE IF u[j] < 0 THEN switch_pos[i][j] - 1 ELSE switch_pos[i][j]]]
      sorted_t_indices == ArgSort(t_switch)
  IN  [p EXCEPT !.carrier_rising = ~p.carrier_rising,
                !.output = [t_switch |-> <<>> \o [i \in 1..4 |-> t_switch[sorted_t_indices[i]]],
                            switch_pos |-> <<>> \o [i \in 1..4 |-> <<>> \o switch_pos_phase[sorted_t_indices[i]]]]]

PwmInit == [carrier_rising |-> FALSE, input |-> <<0, 0, 0>>, output |-> [t_switch |-> <<>>, switch_pos |-> <<>>]]

PwmInitState ==
  /\ solver = "CarrierPWM"
  /\ nl \in NlValues
  /\ \E u \in ModulatingSignals : ctr = [PwmInit EXCEPT !.input = u]
  /\ Np = 0 /\ model = Unused /\ lambda_u = 0 /\ x = Unused /\ y_ref = Unused /\ u_km1 = Unused
  /\ enum = Unused /\ bnb = Unused /\ sd = Unused /\ qp = Unused
  /\ hist = <<>>

\* one control interval: the control system calls the modulator
Execute ==
  /\ Len(hist) < MaxRepeats
  /\ ctr' = PwmExecute(ctr, nl)
  /\ hist' = Append(hist, [carrier_rising |-> ctr.carrier_rising, input |-> ctr.input,
                           t_switch |-> ctr'.output.t_switch, switch_pos |-> ctr'.output.switch_pos])
  /\ UNCHANGED <<solver, nl, Np, model, lambda_u, x, y_ref, u_km1, enum, bnb, sd, qp>>

PwmSpec == PwmInitState /\ [][Execute]_vars

(***************************************************************************)
(* Simulation and SwitchingLogic (sim/simulation.py).  In this             *)
(* specification ctr holds the CarrierPWM object of the control system,     *)
(* u_km1 the SwitchingLogic object (k_switch, the position u_abc it holds,  *)
(* and the number of quantizations made), x the Simulation object with the  *)
(* position of simulate's two loops, and hist one entry per controller      *)
(* execution ("ctr") and per system update ("sys").  The sampling intervals *)
(* are whole numbers of a common unit.  A quotient of two floats is the     *)
(* exact quotient plus a rounding error of at most one unit in the last     *)
(* place: it is counted in units of which Tol make up the tolerance 1e-10   *)
(* of the constructor and 100 * Tol make up 1.                              *)
(***************************************************************************)
Tol == 10
SamplingIntervals == {1, 2, 3}
SimSamplingIntervals == {1, 2}
StopTimes == {1, 2}
RoundingErrors == {-1, 0, 1}

\* the modulating signals of a balanced three-phase reference
SimSignals == {u \in ModulatingSignals : u[1] + u[2] + u[3] = 0}

\* a / b in floating point
FloatDiv(a, b, err) == (a * 100 * Tol) \div b + err

\* the rounding errors a / b can have: none when the quotient is a power of
\* two, because the floats nearest to d and to 2 d differ by the factor 2
FloatErrors(a, b) ==
  IF \E p \in {1, 2, 4} : a = p * b \/ b = p * a THEN {0} ELSE RoundingErrors

\* round() and np.round of num / den: to the nearest integer, a half to the
\* even neighbour
RoundHalfEven(num, den) ==
  LET f == num \div den
      r == num % den
  IN  IF 2 * r < den THEN f
      ELSE IF 2 * r > den THEN f + 1
      ELSE IF f % 2 = 0 THEN f ELSE f + 1

\* int() of a positive quotient
IntOf(q) == q \div (100 * Tol)

\* SwitchingLogic.quantize_switching_time_instants, the instants in quarters
QuantizeSwitchingTimeInstants(s, t_switch) ==
  <<>> \o [i \in 1..Len(t_switch) |-> RoundHalfEven(t_switch[i] * s.Ts, 4 * s.Ts_sim)]

SwitchingLogicInit(Ts_sim, Ts) ==
  [Ts_sim |-> Ts_sim, Ts |-> Ts, k_switch |-> <<0>>, u_abc |-> <<0, 0, 0>>, quantized |-> 0]

\* get_switch_positions that quantizes at every simulation step
GetSwitchPositionsQuantizeAlways(s, ctr_output, k_sim) ==
  LET k_switch == QuantizeSwitchingTimeInstants(s, ctr_output.t_switch)
      rows == {i \in 1..Len(k_switch) : k_switch[i] = k_sim}
  IN  [s EXCEPT !.k_switch = k_switch,
                !.quantized = s.quantized + 1,
                !.u_abc = IF rows # {} THEN ctr_output.switch_pos[CHOOSE i \in rows : \A j \in rows : j <= i]
                          ELSE s.u_abc]

\* SwitchingLogic.get_switch_positions: the object after the call (the
\* returned value is its u_abc)
GetSwitchPositions(s, ctr_output, k_sim) ==
  LET k_switch == IF k_sim = 0 THEN QuantizeSwitchingTimeInstants(s, ctr_output.t_switch)
                  ELSE s.k_switch
      rows == {i \in 1..Len(k_switch) : k_switch[i] = k_sim}
  IN  [s EXCEPT !.k_switch = k_switch,
                !.quantized = IF k_sim = 0 THEN s.quantized + 1 ELSE s.quantized,
                !.u_abc = IF rows # {} THEN ctr_output.switch_pos[CHOOSE i \in rows : \A j \in rows : j <= i]
                          ELSE s.u_abc]

\* Simulation.__init__ followed by the call simulate(t_stop): t_stop counts
\* control intervals
SimulationInit(Ts, Ts_sim, err, t_stop) ==
  LET Ts_rat == FloatDiv(Ts, Ts_sim, err)
      rounded == RoundHalfEven(Ts_rat, 100 * Tol) * 100 * Tol
  IN  [Ts |-> Ts, Ts_sim |-> Ts_sim, Ts_rat |-> Ts_rat, t_stop |-> t_stop,
       status |-> IF Abs(Ts_rat - rounded) > Tol THEN "ValueError" ELSE "ok",
       pc |-> IF Abs(Ts_rat - rounded) > Tol THEN "raised" ELSE "ctr",
       k |-> 0, k_sim |-> 0]

SimInitState ==
  /\ solver = "CarrierPWM"
  /\ nl \in NlValues
  /\ ctr = PwmInit
  /\ \E Ts \in SamplingIntervals, Ts_sim \in SimSamplingIntervals, t_stop \in StopTimes :
     \E err \in FloatErrors(Ts, Ts_sim) :
       /\ x = SimulationInit(Ts, Ts_sim, err, t_stop)
       /\ u_km1 = SwitchingLogicInit(Ts_sim, Ts)
  /\ Np = 0 /\ model = Unused /\ lambda_u = 0 /\ y_ref = Unused
  /\ enum = Unused /\ bnb = Unused /\ sd = Unused /\ qp = Unused
  /\ hist = <<>>

\* the object after the inner loop has made its step k_sim (or found
\* nothing to do): the next step of the same interval, the next interval or
\* the end
SimAdvance(s, k_sim) ==
  IF k_sim < IntOf(s.Ts_rat) THEN [s EXCEPT !.pc = "sys", !.k_sim = k_sim]
  ELSE IF s.k + 1 < s.t_stop THEN [s EXCEPT !.pc = "ctr", !.k = s.k + 1, !.k_sim = 0]
  ELSE [s EXCEPT !.pc = "done", !.k = s.k + 1, !.k_sim = 0]

\* ctr_output = self.ctr(self.sys, kTs): the control loops set the input of
\* the modulator, which is executed
SimExecuteCtr ==
  /\ x.pc = "ctr"
  /\ \E u \in SimSignals : ctr' = PwmExecute([ctr EXCEPT !.input = u], nl)
  /\ x' = SimAdvance(x, 0)
  /\ hist' = Append(hist, [op |-> "ctr", k |-> x.k, k_sim |-> 0, u_abc |-> u_km1.u_abc,
                           k_switch |-> u_km1.k_switch, quantized |-> u_km1.quantized,
                           output |-> ctr'.output])
  /\ UNCHANGED <<solver, nl, Np, model, lambda_u, y_ref, u_km1, enum, bnb, sd, qp>>

\* one pass of the inner loop: get_switch_positions and sys.update
SimUpdate ==
  /\ x.pc = "sys"
  /\ u_km1' = GetSwitchPositions(u_km1, ctr.output, x.k_sim)
  /\ x' = SimAdvance(x, x.k_sim + 1)
  /\ hist' = Append(hist, [op |-> "sys", k |-> x.k, k_sim |-> x.k_sim, u_abc |-> u_km1'.u_abc,
                           k_switch |-> u_km1'.k_switch, quantized |-> u_km1'.quantized,
                           output |-> ctr.output])
  /\ UNCHANGED <<solver, nl, Np, model, lambda_u, y_ref, ctr, enum, bnb, sd, qp>>

SimSpec == SimInitState /\ [][SimExecuteCtr \/ SimUpdate]_vars

(***************************************************************************)
(* Carrier (sim/carrier_pwm.py).  Values are counted in sixteenths, so     *)
(* that the limits, the initial values and the steps of the carriers that   *)
(* CarrierComparison builds are integers for the ratios Ts_car / Ts_sim     *)
(* below; with these powers of two the floating-point sums of the code are  *)
(* exact.  In this specification ctr holds the Carrier object and hist the  *)
(* values returned by its calls.                                           *)
(***************************************************************************)
MaxCarrierCalls == 16

\* Ts_car / Ts_sim
CarrierRatios == {2, 4, 8, 16}

\* (lower_limit, upper_limit, initial_val) of the carriers of
\* CarrierComparison
CarrierArgs == {<<-16, 16, 0>>, <<-16, 0, -8>>, <<0, 16, 8>>}

CarrierInit(ratio, lower_limit, upper_limit, initial_val) ==
  [value |-> initial_val, lower_limit |-> lower_limit, upper_limit |-> upper_limit,
   direction |-> -1, step |-> (upper_limit - lower_limit) \div ratio]

\* Carrier.__call__: the object after the call and the value returned
CarrierCall(c) ==
  LET value == c.value + c.direction * c.step
      atLower == (value - c.lower_limit) < c.step
      dir1 == IF atLower THEN -c.direction ELSE c.direction
      atUpper == (value - c.upper_limit) > c.step
      dir2 == IF atUpper THEN -dir1 ELSE dir1
  IN  [self |-> [c EXCEPT !.value = value, !.direction = dir2],
       carrier_value |-> IF atUpper THEN c.upper_limit
                         ELSE IF atLower THEN c.lower_limit
                         ELSE c.value]

CarrierInitState ==
  /\ solver = "Carrier"
  /\ \E ratio \in CarrierRatios, a \in CarrierArgs : ctr = CarrierInit(ratio, a[1], a[2], a[3])
  /\ nl = 0 /\ Np = 0 /\ model = Unused /\ lambda_u = 0 /\ x = Unused /\ y_ref = Unused /\ u_km1 = Unused
  /\ enum = Unused /\ bnb = Unused /\ sd = Unused /\ qp = Unused
  /\ hist = <<>>

\* one simulation step: the carrier is called
CallCarrier ==
  /\ Len(hist) < MaxCarrierCalls
  /\ \E r \in {CarrierCall(ctr)} :
       /\ ctr' = r.self
       /\ hist' = Append(hist, [carrier_value |-> r.carrier_value, reversed |-> r.self.direction # ctr.direction])
  /\ UNCHANGED <<solver, nl, Np, model, lambda_u, x, y_ref, u_km1, enum, bnb, sd, qp>>

CarrierSpec == CarrierInitState /\ [][CallCarrier]_vars

(***************************************************************************)
(* Reference definitions for the properties: the optimisation problem      *)
(* written out directly, without the solvers' bookkeeping                  *)
(***************************************************************************)
\* position of step ell (0-based) in a flat sequence U
Pos(U, ell) == SubSeq(U, 3 * ell + 1, 3 * ell + 3)
\* the position before step ell: the previously applied one for step 0
PrevOf(ukm1, U, ell) == IF ell = 0 THEN ukm1 ELSE Pos(U, ell - 1)

\* no phase moves by two or more levels (a two-level converter never does
\* in the sense of the constraint)
LegalStep(n, u, uprev) == n = 3 => \A j \in 1..3 : Abs(u[j] - uprev[j]) < 2
LegalSequence(n, ukm1, U) ==
  \A ell \in 0..((Len(U) \div 3) - 1) : LegalStep(n, Pos(U, ell), PrevOf(ukm1, U, ell))

\* state predicted after steps 0..ell of U
RECURSIVE PredictedState(_, _, _, _)
PredictedState(m, x0, U, ell) ==
  LET xprev == IF ell = 0 THEN x0 ELSE PredictedState(m, x0, U, ell - 1)
  IN VecAdd(MatVec(m.A, xprev), MatVec(m.B, Pos(U, ell)))

\* sum of the L1 distances between consecutive positions of U
RECURSIVE SwitchingEffortTo(_, _, _)
SwitchingEffortTo(ukm1, U, ell) ==
  IF ell < 0 THEN 0
  ELSE Norm1(VecSub(Pos(U, ell), PrevOf(ukm1, U, ell))) + SwitchingEffortTo(ukm1, U, ell - 1)
SwitchingEffort(ukm1, U) == SwitchingEffortTo(ukm1, U, (Len(U) \div 3) - 1)

\* sum of the squared tracking errors, step ell measured against row
\* ell + first (0-based) of the reference array
RECURSIVE TrackingErrorTo(_, _, _, _)
TrackingErrorTo(p, U, first, ell) ==
  IF ell < 0 THEN 0
  ELSE NormSq(VecSub(p.y_ref[ell + first + 1], MatVec(C, PredictedState(p.model, p.x, U, ell))))
         + TrackingErrorTo(p, U, first, ell - 1)

SeqCost(p, U, first) ==
  CHOOSE r \in {TrackingErrorTo(p, v, first, p.Np - 1) + p.lambda_u * SwitchingEffort(p.u_km1, v) :
                  v \in {U}} : TRUE

\* the r-th (0-based) sequence of the Np-fold product of SW_COMB with itself,
\* step 0 varying slowest
RECURSIVE ProductSeqOf(_, _, _)
ProductSeqOf(sw, steps, r) ==
  IF steps = 0 THEN <<>>
  ELSE ProductSeqOf(sw, steps - 1, r \div Len(sw)) \o sw[(r % Len(sw)) + 1]
ProductSeq(p, r) == ProductSeqOf(p.SW_COMB, p.Np, r)

\* cost of every sequence of the product, in product order; illegal ones inf
ProductCosts(p) ==
  <<>> \o [r \in 1..Pow(p.nl, 3 * p.Np) |->
             IF LegalSequence(p.nl, p.u_km1, ProductSeq(p, r - 1))
             THEN SeqCost(p, ProductSeq(p, r - 1), 0) ELSE inf]

Range(s) == {s[j] : j \in 1..Len(s)}
MinOf(s) == CHOOSE v \in Range(s) : \A w \in Range(s) : v <= w

\* the inputs of the completed call, with another weighting factor
WithLambda(l) == [Params EXCEPT !.lambda_u = l]
\* the inputs of the completed call cut to a horizon of one step less
ShorterHorizon == [Params EXCEPT !.Np = Np - 1, !.y_ref = SubSeq(y_ref, 1, Len(y_ref) - 1)]
\* the inputs MpcEnum needs to start from the position MpcSpheDec started from
FromSdPrev == [Params EXCEPT !.u_km1 = sd.prev]

(***************************************************************************)
(* Properties                                                              *)
(***************************************************************************)
\* C1: once MpcBnB has been called, its search has ended with J_min equal to
\* the minimum of the cost array J that MpcEnum builds from the same inputs
\* (same model, state, reference array, previous position, lambda_u, nl, Np).
C1_BnBMinEqualsEnumMin ==
  bnb.status # "idle" =>
    /\ bnb.status = "ok"
    /\ \E p \in {Params} : bnb.J_min = MinOf(EnumCall(p).J)

\* C2: whenever a call of MpcSpheDec has returned, the sequence it ended
\* with has the same total cost (squared tracking error plus lambda_u times
\* the L1 switching effort, summed over the horizon) as the minimum-cost
\* sequence of MpcEnum for the same state, reference, weighting factor and
\* previous position.
C2_SpheDecCostEqualsEnumMin ==
  (sd.status = "ok" /\ sd.calls > 0) =>
    \E p \in {FromSdPrev} : SeqCost(p, sd.U_km1, 0) = MinOf(EnumCall(p).J)

\* C3: the position a call of MpcEnum, MpcBnB or MpcSpheDec returns does not
\* violate the switching constraint relative to the previous position that
\* call worked from: for nl = 3 no phase differs from its previous value by
\* two or more.
C3_ReturnedPositionIsLegal ==
  /\ enum.status = "ok" => LegalStep(nl, enum.uk, u_km1)
  /\ bnb.status = "ok" => LegalStep(nl, bnb.uk, u_km1)
  /\ sd.status = "ok" => LegalStep(nl, sd.uk, sd.prev)

\* a three-level MpcEnum call that started from a position with phases at
\* the extreme levels and returned another position
C3_Witness ==
  /\ enum.status = "ok"
  /\ nl = 3
  /\ u_km1 = <<1, -1, 1>>
  /\ enum.uk # u_km1

\* C4: each of the three switching-constraint predicates (solvers.utils, the
\* MpcEnum method, the Converter method) returns false for nl = 2 and, for
\* nl = 3, returns true exactly when some phase of the candidate differs
\* from the same phase of the previous position by two or more; they agree
\* on every input.
C4_PredicatesDecideTheConstraint ==
  \A u \in Range(SW_COMB(nl)) :
    LET expected == ~LegalStep(nl, u, u_km1)
        utils    == UtilsSwitchingConstraintViolated(nl, u, u_km1)
    IN /\ utils.raised = "none"
       /\ utils.value = expected
       /\ EnumSwitchingConstraintViolated(nl, u, u_km1) = expected
       /\ ConverterSwitchingConstraintViolated(nl, u, u_km1) = expected

\* C5: a call of MpcEnum or MpcBnB ends without an error and returns the
\* first position of a full-length legal sequence of switch positions; the
\* search of MpcBnB has reached a leaf, so U_seq is not the zero placeholder.
C5_CallReturnsFirstPositionOfLegalSequence ==
  /\ enum.status # "idle" =>
       /\ enum.status = "ok"
       /\ \E r \in 1..Len(enum.u_seq) :
            /\ enum.u_seq[r] = ProductSeq(Params, r - 1)
            /\ LegalSequence(nl, u_km1, enum.u_seq[r])
            /\ enum.uk = Pos(enum.u_seq[r], 0)
  /\ bnb.status # "idle" =>
       /\ bnb.status = "ok"
       /\ bnb.J_min < inf
       /\ \E r \in 0..(Pow(nl, 3 * Np) - 1) : bnb.U_seq = ProductSeq(Params, r)
       /\ LegalSequence(nl, u_km1, bnb.U_seq)
       /\ bnb.uk = Pos(bnb.U_seq, 0)

\* C6: MpcEnum returns the first three entries of a sequence whose cost is
\* the minimum over all Np-step sequences, and among the sequences that
\* attain the minimum it is the one that comes first in product order.
C6_EnumReturnsFirstMinimum ==
  enum.status = "ok" =>
    \E p \in {Params} :
      LET costs == ProductCosts(p)
          best  == MinOf(costs)
          first == CHOOSE r \in 1..Len(costs) :
                     costs[r] = best /\ \A q \in 1..(r - 1) : costs[q] # best
      IN /\ best < inf
         /\ enum.min_index = first - 1
         /\ enum.uk = Pos(ProductSeq(p, first - 1), 0)

\* a two-step MpcEnum call in which several sequences attain the minimum
\* and they do not all start with the same position
C6_Witness ==
  /\ enum.status = "ok"
  /\ Np = 2
  /\ \E r \in 1..Len(enum.J) :
       /\ enum.J[r] = enum.J[enum.min_index + 1]
       /\ Pos(enum.u_seq[r], 0) # enum.uk

\* C7: the cost MpcEnum and MpcBnB assign to a legal full-length sequence is
\* the sum over the steps of the squared tracking error of the output
\* predicted after the step plus lambda_u times the L1 distance between the
\* step's position and its predecessor (the previously applied position
\* for step 0).  MpcEnum measures step ell against row ell of the reference
\* array, MpcBnB against row ell + 1.
C7_CostIsSumOfStepCosts ==
  /\ enum.status = "ok" =>
       \E p \in {Params} :
         \A r \in 1..Len(enum.J) :
           LegalSequence(nl, u_km1, ProductSeq(p, r - 1)) =>
             /\ enum.u_seq[r] = ProductSeq(p, r - 1)
             /\ enum.J[r] = SeqCost(p, enum.u_seq[r], 0)
  /\ bnb.status = "ok" =>
       \E p \in {Params} :
         /\ \A leaf \in bnb.leaves :
              LegalSequence(nl, u_km1, leaf[1]) /\ leaf[2] = SeqCost(p, leaf[1], 1)
         /\ bnb.J_min = SeqCost(p, bnb.U_seq, 1)

\* a two-step MpcBnB call with a weighted effort term that evaluated
\* several full-length sequences and ended with one that switches
C7_Witness ==
  /\ bnb.status = "ok"
  /\ Np = 2
  /\ lambda_u > 0
  /\ Cardinality(bnb.leaves) > 1
  /\ SwitchingEffort(u_km1, bnb.U_seq) > 0

\* C8: with Np = 1 and lambda_u = 0 a call of MpcEnum, MpcBnB or MpcSpheDec
\* returns a legal position whose one-step predicted output has the
\* smallest squared distance to the reference among all legal positions,
\* and the cost MpcEnum and MpcBnB record for it is that squared distance.
\* The reference is the row the solver reads for step 0.
C8_OneStepPicksClosestOutput ==
  (Np = 1 /\ lambda_u = 0) =>
    \E p \in {Params} :
      LET Legal(prev) == {u \in Range(p.SW_COMB) : LegalStep(nl, u, prev)}
          Dist(u, row) == NormSq(VecSub(p.y_ref[row], MatVec(C, PredictedState(model, x, u, 0))))
          Closest(u, prev, row) ==
            u \in Legal(prev) /\ \A v \in Legal(prev) : Dist(u, row) <= Dist(v, row)
      IN /\ enum.status # "idle" =>
              /\ enum.status = "ok"
              /\ Closest(enum.uk, u_km1, 1)
              /\ enum.J[enum.min_index + 1] = Dist(enum.uk, 1)
         /\ bnb.status # "idle" =>
              /\ bnb.status = "ok"
              /\ Closest(bnb.uk, u_km1, 2)
              /\ bnb.J_min = Dist(bnb.uk, 2)
         /\ sd.calls > 0 =>
              /\ sd.status = "ok"
              /\ Closest(sd.uk, sd.prev, 1)

\* C9: with everything else fixed, the sequence a solver chooses with
\* lambda_u > 0 has a switching effort (L1 distance between consecutive
\* positions, counted from the previously applied position) no larger than
\* that of the sequence it chooses with lambda_u = 0.
C9_EffortNotLargerThanUnweighted ==
  /\ (enum.status = "ok" /\ lambda_u > 0) =>
       \E p \in {WithLambda(0)} :
         LET e0 == EnumCall(p)
         IN SwitchingEffort(u_km1, enum.u_seq[enum.min_index + 1])
              <= SwitchingEffort(u_km1, e0.u_seq[e0.min_index + 1])
  /\ (bnb.status = "ok" /\ lambda_u > 0) =>
       \E p \in {WithLambda(0)} :
         LET b0 == BnBCall(p)
         IN b0.status = "ok"
              /\ SwitchingEffort(u_km1, bnb.U_seq) <= SwitchingEffort(u_km1, b0.U_seq)

\* a weighted MpcEnum call whose chosen sequence switches strictly less
\* than the one chosen without the weight
C9_Witness ==
  /\ enum.status = "ok"
  /\ lambda_u > 0
  /\ \E p \in {WithLambda(0)} :
       LET e0 == EnumCall(p)
       IN SwitchingEffort(u_km1, enum.u_seq[enum.min_index + 1])
            < SwitchingEffort(u_km1, e0.u_seq[e0.min_index + 1])

\* C10: the minimum total cost MpcEnum (and MpcBnB) finds for a horizon of
\* Np + 1 steps is not smaller than the one it finds for Np steps with the
\* same model, state, previous position and lambda_u and with the reference
\* array cut by its last row.
C10_MinCostNotDecreasingInHorizon ==
  /\ (enum.status = "ok" /\ Np > 1) =>
       \E p \in {ShorterHorizon} : MinOf(enum.J) >= MinOf(EnumCall(p).J)
  /\ (bnb.status = "ok" /\ Np > 1) =>
       \E p \in {ShorterHorizon} :
         LET b1 == BnBCall(p)
         IN b1.status = "ok" /\ bnb.J_min >= b1.J_min

\* a two-step MpcEnum call whose minimum is strictly larger than the
\* one-step minimum, which itself is not zero
C10_Witness ==
  /\ enum.status = "ok"
  /\ Np = 2
  /\ \E p \in {ShorterHorizon} :
       LET m1 == MinOf(EnumCall(p).J)
       IN m1 > 0 /\ MinOf(enum.J) > m1

\* C11: the per-phase admissible set of the sphere decoder (and of the
\* converter) is {-1,1} for nl = 2 and, for nl = 3, {-1,0} after -1,
\* {-1,0,1} after 0 and {0,1} after 1; it is defined for every previous
\* phase value the solver passes to it: no call ends with the unbound
\* result, and every entry of the stored sequence is one of -1, 0, 1.
C11_AllowedSetPerPhase ==
  /\ \A u \in -1..1 :
       LET expected == IF nl = 2 THEN {-1, 1} ELSE {v \in -1..1 : Abs(v - u) < 2}
           a == GetAllowedSwitchPositions(nl, u)
           b == ConverterGetAllowedSwitchPositions(nl, u)
       IN /\ a.raised = "none" /\ Range(a.value) = expected /\ Len(a.value) = Cardinality(expected)
          /\ b.raised = "none" /\ Range(b.value) = expected /\ Len(b.value) = Cardinality(expected)
  /\ sd.status # "UnboundLocalError"
  /\ sd.initialized => \A j \in 1..Len(sd.U_km1) : sd.U_km1[j] \in -1..1

\* a second three-level call of one sphere decoder whose search started from
\* a stored sequence with a phase at an extreme level
C11_Witness ==
  /\ sd.status = "ok"
  /\ nl = 3
  /\ sd.calls = 2
  /\ \E j \in 1..3 : sd.prev[j] # 0

\* C12: SW_COMB, which MpcEnum and MpcBnB build with the same expression,
\* holds exactly nl^3 distinct three-phase positions, which are the
\* triples over the per-phase alphabet ({-1,1} or {-1,0,1}), in the order of
\* the Cartesian product (the last phase varying fastest); a one-step
\* MpcEnum call lists them in that order and every sequence MpcBnB evaluates
\* is made of them.
C12_SwCombIsTheProduct ==
  LET sw       == Params.SW_COMB
      alphabet == IF nl = 2 THEN {-1, 1} ELSE {-1, 0, 1}
      Before(a, b) == \E j \in 1..3 : a[j] < b[j] /\ \A i \in 1..(j - 1) : a[i] = b[i]
  IN /\ Len(sw) = Pow(nl, 3)
     /\ Range(sw) = {<<a, b, c>> : a \in alphabet, b \in alphabet, c \in alphabet}
     /\ \A r \in 1..Len(sw) : \A q \in (r + 1)..Len(sw) : Before(sw[r], sw[q])
     /\ (enum.status = "ok" /\ Np = 1) => enum.u_seq = sw
     /\ bnb.status = "ok" =>
          \A leaf \in bnb.leaves : \A ell \in 0..(Np - 1) : Pos(leaf[1], ell) \in Range(sw)

\* a one-step three-level MpcEnum call, which has filled its 27 rows
C12_Witness ==
  /\ enum.status = "ok"
  /\ nl = 3
  /\ Np = 1
  /\ Len(enum.u_seq) = 27
  /\ enum.u_seq[2] = <<-1, -1, 0>>

\* C13: a level count that is neither 2 nor 3, or a horizon that is not
\* positive, is rejected when the solver is constructed or its offline
\* matrices are built: no error of such a configuration is raised from the
\* search (solve, sphe_dec) or later in the call, and no position is
\* returned.
C13_InvalidConfigurationRejectedEarly ==
  (nl \notin {2, 3} \/ Np < 1) =>
    \A r \in {enum, bnb, sd} :
      /\ r.status # "ok"
      /\ r.where \in {"-", "__init__", "make_problem_matrices"}

\* C14: a call of IndirectMpcQP hands the problem to the QP backend; when the
\* backend yields no solution the call ends in an error, when it yields a
\* solution the call returns exactly its first three entries, and a returned
\* signal is never absent.
C14_QPCallReturnsHeadOrError ==
  qp.calls > 0 =>
    /\ qp.asked
    /\ ~qp.U_tilde.found => qp.status # "ok"
    /\ qp.U_tilde.found => qp.status = "ok" /\ qp.uk = SubSeq(qp.U_tilde.x, 1, 3)
    /\ qp.status = "ok" => Len(qp.uk) = 3

\* C15: the result of a call depends only on that call's inputs: any two
\* calls of one solver instance with the same state, reference horizon,
\* controller previous position and weights end the same way and return the
\* same switch position; MpcEnum's counter, reset at the start of each call,
\* equals the number of sequences after each call.
C15_ResultDependsOnlyOnInputs ==
  /\ \A a, b \in 1..Len(hist) :
       (hist[a].x = hist[b].x /\ hist[a].y_ref = hist[b].y_ref
          /\ hist[a].u_km1 = hist[b].u_km1)
         => hist[a].status = hist[b].status /\ hist[a].uk = hist[b].uk
  /\ (solver = "MpcEnum" /\ Len(hist) > 0) => enum.i = Pow(nl, 3 * Np)

\* C16: a call of get_next_state changes no field of the controller or of the
\* system object, and within one search the calls made give the same value
\* for the same (state, input, step index).
C16_GetNextStateHasNoHiddenMutation ==
  [][ctr'.calls = ctr.calls + 1 =>
       /\ ctr'.state_space = ctr.state_space
       /\ ctr'.cont_state_space = ctr.cont_state_space
       /\ ctr'.theta_el = ctr.theta_el
       /\ ctr'.vg = ctr.vg
       /\ \A a, b \in ctr'.results :
            (a.xk = b.xk /\ a.u = b.u /\ a.k = b.k) => a.value = b.value]_vars

\* C17: in MpcBnB.solve a candidate is recursed into, or at the last step
\* stored as the incumbent, only if the accumulated cost including the
\* candidate is strictly less than J_min and the candidate respects the
\* switching constraint relative to its parent; J_min starts at +infinity,
\* changes only when an incumbent is stored and never increases; and each
\* stored incumbent, hence U_seq whenever J_min is finite, is a full-length
\* sequence that respects the constraint at every transition and whose
\* total cost is J_min.
C17_BnBPrunesAndKeepsIncumbent ==
  bnb.status # "idle" =>
    \E p \in {Params} :
      LET t   == bnb.trace
          rec == {j \in 1..Len(t) : t[j].ell = Np - 1}
      IN /\ \A j \in 1..Len(t) :
              /\ t[j].J_temp < t[j].J_min
              /\ LegalStep(nl, t[j].u, t[j].uprev)
              /\ t[j].J_min = IF j = 1 THEN inf
                              ELSE IF j - 1 \in rec THEN t[j - 1].J_temp ELSE t[j - 1].J_min
         /\ \A j \in rec :
              /\ Len(t[j].U_temp) = 3 * Np
              /\ LegalSequence(nl, u_km1, t[j].U_temp)
              /\ SeqCost(p, t[j].U_temp, 1) = t[j].J_temp
         /\ IF rec = {} THEN bnb.J_min = inf
            ELSE \E j \in rec :
                   /\ \A k \in rec : k <= j
                   /\ bnb.J_min = t[j].J_temp
                   /\ bnb.J_min < inf
                   /\ bnb.U_seq = t[j].U_temp

\* a two-step search that stored an incumbent, replaced it by a cheaper one
\* and cut a full-length candidate by the pruning test
C17_Witness ==
  /\ bnb.status = "ok"
  /\ Np = 2
  /\ Cardinality({j \in 1..Len(bnb.trace) : bnb.trace[j].ell = Np - 1}) >= 2
  /\ Cardinality(bnb.leaves) > Cardinality({j \in 1..Len(bnb.trace) : bnb.trace[j].ell = Np - 1})

\* C18: when MpcEnum.solve has finished, the counter i equals nl^(3*Np), row
\* r of u_seq is the r-th sequence of the Cartesian-product order, and J[r]
\* is +infinity exactly for the sequences with a transition that violates
\* the switching constraint (the transition from the previously applied
\* position included, at whichever step it occurs) and is the finite sum of
\* the step costs for every other sequence.
C18_EnumFinishingState ==
  enum.status = "ok" =>
    \E p \in {Params} :
      /\ enum.i = Pow(nl, 3 * Np)
      /\ Len(enum.u_seq) = Pow(nl, 3 * Np)
      /\ \A r \in 1..Len(enum.u_seq) : enum.u_seq[r] = ProductSeq(p, r - 1)
      /\ enum.J = ProductCosts(p)
      /\ \A r \in 1..Len(enum.J) :
           enum.J[r] = inf <=> ~LegalSequence(nl, u_km1, enum.u_seq[r])

\* a two-step three-level search with a sequence that is illegal only at its
\* first step, one that is illegal only at its second step, and a legal one
C18_Witness ==
  /\ enum.status = "ok" /\ nl = 3 /\ Np = 2
  /\ \E r \in 1..Len(enum.J) :
       /\ enum.J[r] = inf
       /\ ~LegalStep(nl, Pos(enum.u_seq[r], 0), u_km1)
       /\ LegalStep(nl, Pos(enum.u_seq[r], 1), Pos(enum.u_seq[r], 0))
  /\ \E r \in 1..Len(enum.J) :
       /\ enum.J[r] = inf
       /\ LegalStep(nl, Pos(enum.u_seq[r], 0), u_km1)
  /\ \E r \in 1..Len(enum.J) : enum.J[r] < inf

\* C19: at every completed MpcSpheDec call, the first included, the initial
\* sequence U_ini ends with its last position repeated and is feasible:
\* every entry belongs to the per-phase alphabet of the converter ({-1, 1}
\* for two levels, {-1, 0, 1} for three) and every transition, starting from
\* the previously applied position, respects the switching constraint.
C19_InitialSequenceIsFeasible ==
  sd.status = "ok" =>
    /\ Len(sd.U_ini) = 3 * Np
    /\ Np > 1 => Pos(sd.U_ini, Np - 1) = Pos(sd.U_ini, Np - 2)
    /\ \A j \in 1..Len(sd.U_ini) :
         sd.U_ini[j] \in (IF nl = 2 THEN {-1, 1} ELSE {-1, 0, 1})
    /\ LegalSequence(nl, sd.prev, sd.U_ini)

\* C20: every completed MpcSpheDec call, the first included, reached at
\* least one full-depth leaf; the sequence it ends with respects the
\* switching constraint from the previously applied position, lies in the
\* converter's alphabet and has the smallest whitened squared distance to
\* U_bar_unc among all sequences that do; the returned position is the first
\* position of that sequence, not the untouched all-zero placeholder.
C20_WarmStartDoesNotChangeResult ==
  sd.status = "ok" =>
    \E p \in {Params} :
      LET n == 3 * Np
          Dist(U) == SumTo(<<>> \o [i \in 1..n |-> SdTerm(sd.matrices, sd.U_bar_unc, U, i - 1)], n)
      IN /\ sd.leaves >= 1
         /\ \E r \in 0..(Pow(nl, n) - 1) : sd.U_km1 = ProductSeq(p, r)
         /\ LegalSequence(nl, sd.prev, sd.U_km1)
         /\ \A r \in 0..(Pow(nl, n) - 1) :
              LegalSequence(nl, sd.prev, ProductSeq(p, r))
                => Dist(sd.U_km1) <= Dist(ProductSeq(p, r))
         /\ sd.uk = Pos(sd.U_km1, 0)

\* C21: in MpcSpheDec.sphe_dec a node is descended into, or at full depth
\* stored in U_opt, only if its partial squared distance to U_bar_unc does
\* not exceed the radius rho of that moment; the partial distance of a node
\* is not smaller than that of its parent; rho starts at the distance of
\* U_ini, changes only at a leaf update and never increases; and after each
\* leaf update U_opt is a complete sequence whose squared distance is rho.
C21_SphereSearchInvariants ==
  sd.status = "ok" =>
    LET t == sd.trace
        n == 3 * Np
        Dist(U) == SumTo(<<>> \o [i \in 1..n |-> SdTerm(sd.matrices, sd.U_bar_unc, U, i - 1)], n)
        leaf == {j \in 1..Len(t) : t[j].i = n - 1}
    IN /\ \A j \in 1..Len(t) :
            /\ t[j].d <= t[j].rho
            /\ t[j].d >= t[j].dist
            /\ t[j].rho = IF j = 1 THEN sd.rho_ini
                          ELSE IF j - 1 \in leaf THEN t[j - 1].d ELSE t[j - 1].rho
            /\ t[j].rho <= sd.rho_ini
       /\ \A j \in leaf : Len(t[j].U) = n /\ Dist(t[j].U) = t[j].d
       /\ Cardinality(leaf) = sd.leaves
       /\ IF leaf = {} THEN sd.rho = sd.rho_ini
          ELSE \E j \in leaf :
                 /\ \A k \in leaf : k <= j
                 /\ sd.rho = t[j].d
                 /\ sd.U_km1 = t[j].U

\* a two-step three-level search that updated U_opt at least twice, ended
\* with a radius smaller than the initial one, and had descended into a node
\* that lies outside the final radius
C21_Witness ==
  /\ sd.status = "ok" /\ nl = 3 /\ Np = 2
  /\ sd.leaves >= 2
  /\ sd.rho < sd.rho_ini
  /\ \E j \in 1..Len(sd.trace) : sd.trace[j].i < 5 /\ sd.trace[j].d > sd.rho

\* C22: over any sequence of calls on one IndirectMpcQP instance the matrix
\* builder make_QP_matrices runs exactly once, on the first call, which
\* leaves the matrices cached for every later call.
C22_MatricesBuiltOnce ==
  qp.calls > 0 => qp.builds = 1 /\ qp.QP_matrices = "built"

\* C23: over consecutive control steps of a controller driving a three-level
\* converter with MpcBnB or MpcEnum, the first previous position being
\* [0,0,0] and each step storing the returned position for the next, every
\* step applies a position of {-1,0,1}^3 in which no phase differs by two or
\* more from the position applied one step earlier.
C23_AppliedPositionsRespectConstraint ==
  nl = 3 =>
    \A k \in 1..Len(hist) :
      /\ hist[k].u_km1 = IF k = 1 THEN <<0, 0, 0>> ELSE hist[k - 1].uk
      /\ hist[k].status = "ok"
      /\ Len(hist[k].uk) = 3
      /\ \A j \in 1..3 : hist[k].uk[j] \in {-1, 0, 1} /\ Abs(hist[k].uk[j] - hist[k].u_km1[j]) < 2

\* C24: for one reference array MpcEnum and MpcBnB measure the state
\* predicted after step ell against the same row, so the cost they assign
\* to a switch position at a step (same state, same predecessor) is the
\* same number.  Steps for which the array has the row either solver reads.
C24_SameStepCostInBothSolvers ==
  \E p \in {Params} :
    \A ell \in 0..(Np - 1), uk \in Range(p.SW_COMB) :
      ell + 2 <= Len(y_ref) =>
        \E xn \in {GetNextState(model, x, uk, ell)} :
          EnumStepCost(p, xn, uk, u_km1, ell) = BnBStepCost(p, xn, uk, u_km1, ell)

\* C25: when the reference array gives both solvers the same per-step costs
\* (Np + 1 equal rows), a call of MpcBnB returns the first switch position
\* that MpcEnum returns for the same inputs, and ends with the same
\* sequence: of several sequences of minimum cost both keep the first in
\* enumeration order.
C25_BnBReturnsEnumPosition ==
  (bnb.status # "idle" /\ Len(y_ref) = Np + 1 /\ \A r \in 1..Len(y_ref) : y_ref[r] = y_ref[1]) =>
    \E e \in {EnumCall(Params)} :
      /\ bnb.status = "ok"
      /\ bnb.uk = e.uk
      /\ bnb.U_seq = e.u_seq[e.min_index + 1]

(***************************************************************************)
(* Carrier comparison, the reference for the modulator: the carriers of    *)
(* sim/carrier_pwm.py (one between -1 and 1 for two levels, one between -1  *)
(* and 0 and one between 0 and 1 for three levels, all in phase) and its    *)
(* comparison functions.  Values are counted in eighths, time in eighths    *)
(* of the control interval.                                                *)
(***************************************************************************)
CarriersAt(n, rising, t8) ==
  IF n = 2 THEN <<IF rising THEN 2 * t8 - 8 ELSE 8 - 2 * t8>>
  ELSE <<(IF rising THEN t8 ELSE 8 - t8) - 8, IF rising THEN t8 ELSE 8 - t8>>

two_level_pwm(phase, carrier) == IF phase > carrier THEN 1 ELSE -1

three_level_pwm(phase, carriers) ==
  IF phase > carriers[2] THEN 1
  ELSE IF phase < carriers[1] THEN -1
  ELSE 0

\* the position of a phase with modulating signal u (in halves) right after
\* the instant t (in quarters)
PositionFrom(n, rising, u, t) ==
  IF n = 2 THEN two_level_pwm(4 * u, CarriersAt(n, rising, 2 * t + 1)[1])
  ELSE three_level_pwm(4 * u, CarriersAt(n, rising, 2 * t + 1))

C27_OneChangePerIntervalNoneAtBoundary ==
  /\ \A c \in 1..Len(hist) : hist[c].carrier_rising = (c % 2 = 0)
  /\ (\A j \in 1..3 : ctr.input[j] \in -1..1) =>
       /\ \A c \in 1..Len(hist), j \in 1..3 :
            \E h \in {hist[c]} :
              /\ Cardinality({i \in 1..3 : h.switch_pos[i][j] # h.switch_pos[i + 1][j]}) = 1
              /\ \A i \in 1..3 :
                   h.switch_pos[i][j] # h.switch_pos[i + 1][j] =>
                     h.t_switch[i + 1] \in 1..3
       /\ \A c \in 1..(Len(hist) - 1) :
            hist[c].switch_pos[4] = hist[c + 1].switch_pos[1]

\* C28: in every control interval get_switch_positions quantizes the
\* switching instants at simulation step 0 and at no other step; at every
\* step k_sim it returns the row of switch_pos of the latest instant whose
\* quantized step is at most k_sim (the last row of several instants with
\* the same step), and at a step that no instant quantizes to it returns
\* the position it returned before.
C28_HoldsLatestQuantizedPosition ==
  \A e \in 2..Len(hist) :
    hist[e].op = "sys" =>
      \E h \in {hist[e]}, prev \in {hist[e - 1]} :
        \E q \in {QuantizeSwitchingTimeInstants(u_km1, h.output.t_switch)} :
          /\ h.quantized = prev.quantized + (IF h.k_sim = 0 THEN 1 ELSE 0)
          /\ h.k_sim > 0 => h.k_switch = prev.k_switch
          /\ h.k_switch = q
          /\ \E reached \in {{i \in 1..Len(q) : q[i] <= h.k_sim}} :
               /\ reached # {}
               /\ h.u_abc = h.output.switch_pos[CHOOSE i \in reached : \A j \in reached : j <= i]
          /\ (\A i \in 1..Len(q) : q[i] # h.k_sim) => h.u_abc = prev.u_abc

\* a step to which two different instants quantize, with different rows,
\* followed in the same interval by a step to which none does
C28_Witness ==
  \E e \in 2..(Len(hist) - 1) :
    /\ hist[e].op = "sys" /\ hist[e + 1].op = "sys" /\ hist[e + 1].k = hist[e].k
    /\ \E i \in 1..3 :
         /\ hist[e].k_switch[i] = hist[e].k_sim /\ hist[e].k_switch[i + 1] = hist[e].k_sim
         /\ hist[e].output.t_switch[i] # hist[e].output.t_switch[i + 1]
         /\ hist[e].output.switch_pos[i] # hist[e].output.switch_pos[i + 1]
         /\ hist[e].u_abc # hist[e].output.switch_pos[i]
    /\ \A i \in 1..4 : hist[e + 1].k_switch[i] # hist[e + 1].k_sim
    /\ hist[e + 1].u_abc = hist[e].u_abc

\* C30: the constructor of Simulation raises ValueError exactly when the
\* control sampling interval is not a whole multiple of the simulation
\* sampling interval; for an accepted pair with ratio N, simulate executes
\* the control system once at the start of every control interval and then
\* updates the system N times before the next execution, so that a finished
\* simulation of t_stop intervals has made t_stop executions and
\* N * t_stop updates.
C30_OneExecutionAndNUpdatesPerInterval ==
  /\ (x.status = "ValueError") = (x.Ts % x.Ts_sim # 0)
  /\ x.status = "ok" =>
       \E N \in {x.Ts \div x.Ts_sim} :
         /\ \A e \in 1..Len(hist) :
              /\ (hist[e].op = "ctr") = ((e - 1) % (N + 1) = 0)
              /\ hist[e].k = (e - 1) \div (N + 1)
              /\ hist[e].op = "sys" => hist[e].k_sim = ((e - 1) % (N + 1)) - 1
         /\ x.pc = "done" => Len(hist) = x.t_stop * (N + 1)

\* C29: every value returned by Carrier.__call__ lies between lower_limit
\* and upper_limit, both included, and the calls at which the carrier
\* reverses its direction are calls that return one of the two limits.
C29_CarrierStaysWithinLimits ==
  \A c \in 1..Len(hist) :
    /\ ctr.lower_limit <= hist[c].carrier_value
    /\ hist[c].carrier_value <= ctr.upper_limit
    /\ hist[c].reversed => hist[c].carrier_value \in {ctr.lower_limit, ctr.upper_limit}

=============================================================================
